---- MODULE Spec2Model ----
(***************************************************************************)
(* A model of the symbolic-execution core of jssat:                        *)
(*   - the memoized graph executor (symbolic_execution/graph_system.rs),   *)
(*   - the type annotater (frontend/type_annotater.rs).                    *)
(***************************************************************************)
EXTENDS Integers, Sequences, FiniteSets

(***************************************************************************)
(* Bounds of the model and constants of the program.                       *)
(***************************************************************************)
\* number of worker ids of the freely behaving worker family
NumIds == 2
\* how many clones of one cached Arc<Result> requesters keep alive at once
MaxRefs == 1
\* how many ComputeGraphSys handles the driver holds at once
MaxHandles == 2
\* the width in bits of the integers of the IR (i64 in the program)
IntBits == 3
\* the constants of the IR are numbered 0 .. MaxConst
MaxConst == 1
\* graph_system.rs:242  `if *level >= 1000`
DepthLimit == 1000

\* the root handle (CallStack::Root) is no worker; it is addressed as id 0
RootId == 0
\* nothing was returned (the call panicked, or has not returned yet)
NoResult == "none"
\* the results a worker of the free family may produce
Results == {"r1", "r2"}

VARIABLES
    behav,              \* the Workers the factory makes: "free", "chain" or "symb"
    workers,            \* GraphSystemInner.workers : id -> WorkStatus
    factory,            \* GraphSystemInner.factory : the ids make() was called with
    callstack,          \* the spawn calls that are running, innermost first
    global_callstack,   \* ComputeGraphSys.global_callstack / current_callstack
    refs,               \* id -> clones of its Arc<Result> alive outside the table
    handles,            \* ComputeGraphSys handles the driver holds (Arc<inner>)
    poisoned,           \* the workers mutex was held when a panic unwound
    panicked,           \* the panic that aborted the pass, if any
    returned,           \* id -> the results spawn(id) has returned so far
    op,                 \* the last operation and what its caller observed
    \* ---- the type annotater (frontend/type_annotater.rs) ----
    prog,               \* the IR program (PureBlocks, entrypoints, ext_fns) given
    debug_assertions,   \* the build: debug (checked arithmetic, debug_assert) or release
    executions,         \* SymbolicEngine.executions : Executions
    typed_blocks,       \* SymbolicEngine.typed_blocks : BlockKey -> TypedFunction
    new_fn_ids,         \* SymbolicEngine.new_fn_ids : the ids the Counter has given out
    lock,               \* the engine Mutex: 0 free, else the depth of the task holding it
    tasks,              \* the explore_fn tasks awaiting one another, innermost first
    evaluated,          \* the instructions and terminators evaluated so far
    root_result,        \* what the root explore_fn returned to annotate
    apanic,             \* the panic that aborted the annotater, if any
    extracted,          \* what SymbolicEngine::extract made of the engine, if called
    applied,            \* the last call of a pure function: its arguments and result
    first_run,          \* what an earlier run of annotate and extract gave, if any
    \* ---- the program builder (frontend/builder.rs) ----
    builder,            \* the ProgramBuilder, the builders its user holds, the panic
    \* ---- the symbolic execution (symbolic_execution/worker.rs) ----
    symb                \* the lifted program, the ids given out, the SymbWorkers running

gvars == <<behav, workers, factory, callstack, global_callstack, refs, handles,
           poisoned, panicked, returned, op>>

avars == <<prog, debug_assertions, executions, typed_blocks, new_fn_ids, lock,
           tasks, evaluated, root_result, apanic>>

pvars == <<extracted, applied, first_run, builder, symb>>

vars == <<gvars, avars, pvars>>

(***************************************************************************)
(* enum WorkStatus<R> { Working, Completed(Arc<R>) }                       *)
(***************************************************************************)
Working == [st |-> "Working"]
Completed(r) == [st |-> "Completed", r |-> r]

\* a lookup that never finds a finished worker
IsCompletedNever(id) == FALSE

IsWorking(id) == id \in DOMAIN workers /\ workers[id].st = "Working"
IsCompleted(id) == id \in DOMAIN workers /\ workers[id].st = "Completed"

\* FxHashMap::insert on a TLA+ function
MapInsert(m, k, v) == [x \in DOMAIN m \cup {k} |-> IF x = k THEN v ELSE m[x]]

\* the number of times id occurs in a sequence
RECURSIVE Count(_, _)
Count(s, id) ==
    IF s = <<>> THEN 0
    ELSE (IF Head(s) = id THEN 1 ELSE 0) + Count(Tail(s), id)

(***************************************************************************)
(* Worker implementations (trait Worker, fn work).  A worker may request   *)
(* the ids in May(id), returns only once the ids in Need(id) are           *)
(* Completed, produces a result of Res(id); a requester keeps the Arc of   *)
(* an id in Keeps, and the work of an id in Faulty may yield Bogus or      *)
(* panic.  May(RootId) is what the driver requests through the root handle.*)
(* The free family behaves in every way; the chain family nests spawns     *)
(* DepthLimit deep.                                                        *)
(***************************************************************************)
FreeIds == 1 .. NumIds
\* a chain 1 -> 2 -> ... -> DepthLimit, whose last worker may request Leaf
Leaf == DepthLimit + 1
ChainIds == 1 .. Leaf

Ids == IF behav = "free" THEN FreeIds ELSE ChainIds

May(i) ==
    IF behav = "free" THEN FreeIds
    ELSE IF i = RootId THEN {1, Leaf}
    ELSE IF i < DepthLimit THEN {i + 1}
    ELSE IF i = DepthLimit THEN {Leaf}
    ELSE {}

Need(i) == IF behav = "chain" /\ i < DepthLimit THEN {i + 1} ELSE {}

Res(i) == IF behav = "free" THEN Results ELSE {"r1"}

Keeps == IF behav = "free" THEN FreeIds ELSE {1}

Faulty == IF behav = "free" THEN FreeIds ELSE {Leaf}

(***************************************************************************)
(* ComputeGraphSys::new                                                    *)
(***************************************************************************)
NoPanic == [why |-> "none", id |-> RootId]
NoOp == [name |-> "new", id |-> RootId, level |-> 0, out |-> "none", ret |-> NoResult]

InitSystem ==
    /\ workers = << >>
    /\ factory = << >>
    /\ callstack = << >>
    /\ global_callstack = << >>
    /\ refs = << >>
    /\ handles = 1
    /\ poisoned = FALSE
    /\ panicked = NoPanic
    /\ returned = << >>
    /\ op = NoOp

(***************************************************************************)
(* GraphSystemInner::spawn, up to the call of worker.work.  cs is the      *)
(* callstack of the handle the request is made through: << >> for the root *)
(* handle, the running chain for the sys_api handed to a worker.           *)
(***************************************************************************)
CallerLevel(cs) == IF cs = << >> THEN 0 ELSE Head(cs).level

\* the guard written with > in place of >=
DepthExceededOffByOne(cs) == cs # << >> /\ Head(cs).level > DepthLimit

\* lines 241-246: CallStack::Child { level, .. } if *level >= 1000
DepthExceeded(cs) == cs # << >> /\ Head(cs).level >= DepthLimit

SpawnOp(id, cs, out, ret) ==
    [name |-> "spawn", id |-> id, level |-> CallerLevel(cs), out |-> out, ret |-> ret]

\* the Arc handed to the requester is dropped at once or kept alive
KeepChoices(id, n) ==
    {n} \cup (IF id \in Keeps /\ n < MaxRefs THEN {n + 1} ELSE {})

Returned(id, r) ==
    MapInsert(returned, id, (IF id \in DOMAIN returned THEN returned[id] ELSE {}) \cup {r})

\* line 243: panic!("program appears to be deeply nested program ...")
SpawnDepthPanic(id, cs) ==
    /\ panicked' = [why |-> "depth", id |-> id]
    /\ op' = SpawnOp(id, cs, "panic", NoResult)
    /\ UNCHANGED <<workers, factory, callstack, global_callstack, refs,
                   poisoned, returned>>

\* a Working entry answered with a placeholder result instead of a panic
SpawnCyclePlaceholder(id, cs) ==
    /\ returned' = Returned(id, "r1")
    /\ op' = SpawnOp(id, cs, "cached", "r1")
    /\ UNCHANGED <<workers, factory, callstack, global_callstack, refs, poisoned,
                   panicked>>

\* line 257: panic!("cyclic workers not supported yet"), the workers lock held
SpawnCyclePanic(id, cs) ==
    /\ panicked' = [why |-> "cycle", id |-> id]
    /\ poisoned' = TRUE
    /\ op' = SpawnOp(id, cs, "panic", NoResult)
    /\ UNCHANGED <<workers, factory, callstack, global_callstack, refs, returned>>

\* the worker made before the table is looked up
SpawnCachedMakes(id, cs) ==
    /\ \E n \in KeepChoices(id, refs[id]) : refs' = [refs EXCEPT ![id] = n]
    /\ factory' = Append(factory, id)
    /\ returned' = Returned(id, workers[id].r)
    /\ op' = SpawnOp(id, cs, "cached", workers[id].r)
    /\ UNCHANGED <<workers, callstack, global_callstack, poisoned, panicked>>

\* line 259: WorkStatus::Completed(r) => return r.clone()
SpawnCached(id, cs) ==
    /\ \E n \in KeepChoices(id, refs[id]) : refs' = [refs EXCEPT ![id] = n]
    /\ returned' = Returned(id, workers[id].r)
    /\ op' = SpawnOp(id, cs, "cached", workers[id].r)
    /\ UNCHANGED <<workers, factory, callstack, global_callstack, poisoned, panicked>>

\* lines 263-308: make the worker, record it Working, push the frame, run it
SpawnFresh(id, cs) ==
    /\ factory' = Append(factory, id)
    /\ workers' = MapInsert(workers, id, Working)
    /\ callstack' = <<[frame |-> id, level |-> CallerLevel(cs) + 1]>> \o cs
    /\ global_callstack' = callstack'
    /\ op' = SpawnOp(id, cs, "started", NoResult)
    /\ UNCHANGED <<refs, poisoned, panicked, returned>>

spawn(id, cs) ==
    IF DepthExceeded(cs) THEN SpawnDepthPanic(id, cs)
    ELSE IF IsWorking(id) THEN SpawnCyclePanic(id, cs)
    ELSE IF IsCompleted(id) THEN SpawnCached(id, cs)
    ELSE SpawnFresh(id, cs)

Running == panicked.why = "none"
DriverInControl == callstack = << >> \/ ~Running

\* the driver requests id through the root handle
RootSpawn ==
    /\ Running /\ callstack = << >> /\ handles > 0
    /\ \E id \in May(RootId) : spawn(id, << >>)
    /\ UNCHANGED <<behav, handles, avars, pvars>>

\* the running worker requests id through the handle it was given
WorkerSpawn ==
    /\ Running /\ callstack # << >>
    /\ \E id \in May(Head(callstack).frame) : spawn(id, callstack)
    /\ UNCHANGED <<behav, handles, avars, pvars>>

(***************************************************************************)
(* The running worker's work returns; the rest of spawn, lines 308-318.    *)
(***************************************************************************)
\* a spawn that returns its worker's result without recording it
SpawnCompleteUnrecorded(id, r) ==
    /\ workers' = workers
    /\ callstack' = Tail(callstack)
    /\ \E n \in KeepChoices(id, 0) : refs' = MapInsert(refs, id, n)
    /\ returned' = Returned(id, r)
    /\ op' = SpawnOp(id, Tail(callstack), "computed", r)
    /\ UNCHANGED <<factory, global_callstack, poisoned, panicked>>

SpawnComplete(id, r) ==
    /\ workers' = [workers EXCEPT ![id] = Completed(r)]
    /\ callstack' = Tail(callstack)
    /\ \E n \in KeepChoices(id, 0) : refs' = MapInsert(refs, id, n)
    /\ returned' = Returned(id, r)
    /\ op' = SpawnOp(id, Tail(callstack), "computed", r)
    /\ UNCHANGED <<factory, global_callstack, poisoned, panicked>>

WorkReturn ==
    /\ Running /\ callstack # << >>
    /\ \A d \in Need(Head(callstack).frame) : IsCompleted(d)
    /\ \E r \in Res(Head(callstack).frame) :
           SpawnComplete(Head(callstack).frame, r)
    /\ UNCHANGED <<behav, handles, avars, pvars>>

\* line 310: Computation::Bogus => panic!(...), no lock held
WorkBogus ==
    /\ Running /\ callstack # << >>
    /\ Head(callstack).frame \in Faulty
    /\ panicked' = [why |-> "bogus", id |-> Head(callstack).frame]
    /\ op' = [name |-> "work", id |-> Head(callstack).frame,
              level |-> Head(callstack).level, out |-> "panic", ret |-> NoResult]
    /\ UNCHANGED <<behav, workers, factory, callstack, global_callstack, refs,
                   handles, poisoned, returned, avars, pvars>>

\* a panic in work that takes the worker's entry out of the table on its way
WorkPanicForgets ==
    /\ Running /\ callstack # << >>
    /\ Head(callstack).frame \in Faulty
    /\ panicked' = [why |-> "work", id |-> Head(callstack).frame]
    /\ workers' = [i \in DOMAIN workers \ {Head(callstack).frame} |-> workers[i]]
    /\ op' = [name |-> "work", id |-> Head(callstack).frame,
              level |-> Head(callstack).level, out |-> "panic", ret |-> NoResult]
    /\ UNCHANGED <<behav, factory, callstack, global_callstack, refs,
                   handles, poisoned, returned, avars, pvars>>

\* worker.work itself panics (line 308 unwinds)
WorkPanic ==
    /\ Running /\ callstack # << >>
    /\ Head(callstack).frame \in Faulty
    /\ panicked' = [why |-> "work", id |-> Head(callstack).frame]
    /\ op' = [name |-> "work", id |-> Head(callstack).frame,
              level |-> Head(callstack).level, out |-> "panic", ret |-> NoResult]
    /\ UNCHANGED <<behav, workers, factory, callstack, global_callstack, refs,
                   handles, poisoned, returned, avars, pvars>>

(***************************************************************************)
(* What the holders of handles and results do between requests.            *)
(***************************************************************************)
DriverOp(name) ==
    [name |-> name, id |-> RootId, level |-> 0, out |-> "none", ret |-> NoResult]

\* #[derive(Clone)] on ComputeGraphSys
CloneHandle ==
    /\ DriverInControl /\ handles > 0 /\ handles < MaxHandles
    /\ handles' = handles + 1
    /\ op' = DriverOp("clone")
    /\ UNCHANGED <<behav, workers, factory, callstack, global_callstack, refs,
                   poisoned, panicked, returned, avars, pvars>>

DropHandle ==
    /\ DriverInControl /\ handles > 0
    /\ handles' = handles - 1
    /\ op' = DriverOp("drop")
    /\ UNCHANGED <<behav, workers, factory, callstack, global_callstack, refs,
                   poisoned, panicked, returned, avars, pvars>>

\* a requester drops an Arc<Result> it kept
DropResult ==
    /\ \E id \in DOMAIN refs :
           /\ refs[id] > 0
           /\ refs' = [refs EXCEPT ![id] = refs[id] - 1]
    /\ op' = DriverOp("drop_result")
    /\ UNCHANGED <<behav, workers, factory, callstack, global_callstack, handles,
                   poisoned, panicked, returned, avars, pvars>>

(***************************************************************************)
(* ComputeGraphSys::try_into_results, lines 106-126.  self is consumed.    *)
(* The handles given to workers are gone once the driver is in control, so *)
(* the driver's handles are all the references to the system.              *)
(***************************************************************************)
\* the results taken out of the table without Arc::try_unwrap failing
DrainOutcomesIgnoreRefs ==
    IF handles > 1 THEN {"ReferencesToSystem"}
    ELSE IF poisoned THEN {"LockHeldOnWorkers"}
    ELSE IF \E id \in DOMAIN workers : workers[id].st = "Working" THEN {"panic"}
    ELSE {"Ok"}

DrainOutcomes ==
    IF handles > 1 THEN {"ReferencesToSystem"}
    ELSE IF poisoned THEN {"LockHeldOnWorkers"}
    ELSE \* the table is walked in the order of the hash map
         LET w == \E id \in DOMAIN workers : workers[id].st = "Working"
             h == \E id \in DOMAIN refs : refs[id] > 0
         IN  (IF w THEN {"panic"} ELSE {})
             \cup (IF h THEN {"ReferencesToWorkerResults"} ELSE {})
             \cup (IF ~w /\ ~h THEN {"Ok"} ELSE {})

DrainMap == [id \in DOMAIN workers |-> workers[id].r]

try_into_results ==
    /\ DriverInControl /\ handles > 0
    /\ handles' = handles - 1
    /\ \E o \in DrainOutcomes :
           op' = [name |-> "try_into_results", id |-> RootId, level |-> 0, out |-> o,
                  ret |-> IF o = "Ok" THEN DrainMap ELSE NoResult]
    /\ UNCHANGED <<behav, workers, factory, callstack, global_callstack, refs,
                   poisoned, panicked, returned, avars, pvars>>

(***************************************************************************)
(***************************************************************************)
(* The type annotater: frontend/type_annotater.rs.                         *)
(***************************************************************************)
(***************************************************************************)

(***************************************************************************)
(* i64, narrowed to IntBits bits.                                          *)
(***************************************************************************)
RECURSIVE Pow2(_)
Pow2(n) == IF n = 0 THEN 1 ELSE 2 * Pow2(n - 1)

MinInt == 0 - Pow2(IntBits - 1)
MaxInt == Pow2(IntBits - 1) - 1
InRange(x) == MinInt <= x /\ x <= MaxInt
\* two's complement wrap-around of a release build
Wrap(x) == ((x - MinInt) % Pow2(IntBits)) + MinInt

(***************************************************************************)
(* enum ValueType, enum ReturnType, the FFI types.                         *)
(***************************************************************************)
Any == [t |-> "Any"]
Runtime == [t |-> "Runtime"]
String == [t |-> "String"]
ExactString(c) == [t |-> "ExactString", c |-> c]
Number == [t |-> "Number"]
ExactInteger(n) == [t |-> "ExactInteger", n |-> n]
Boolean == [t |-> "Boolean"]
Bool(b) == [t |-> "Bool", b |-> b]
Pointer(w) == [t |-> "Pointer", w |-> w]
Word == [t |-> "Word"]

Void == [k |-> "Void"]
Value(v) == [k |-> "Value", v |-> v]
Never == [k |-> "Never"]
\* the future has not produced a ReturnType (yet)
Pending == [k |-> "Pending"]

\* FFIValueType and FFIReturnType
FFIAny == [f |-> "Any"]
FFIRuntime == [f |-> "Runtime"]
FFIString == [f |-> "String"]
FFIWord == [f |-> "Word"]
FFIPointer(w) == [f |-> "Pointer", w |-> w]
FFIVoid == [k |-> "Void"]
FFIValue(v) == [k |-> "Value", v |-> v]

\* a computation that panicked, with the message of the panic
Panic(msg) == [k |-> "Panic", msg |-> msg]
IsPanic(x) == x.k = "Panic"

\* lines 508-516
ffi_value_type_to_value_type(ffi) ==
    CASE ffi.f = "Any" -> Any
      [] ffi.f = "Runtime" -> Runtime
      [] ffi.f = "Pointer" -> Pointer(ffi.w)
      [] ffi.f = "Word" -> Word
      [] ffi.f = "String" -> String

\* lines 518-527: Option<ValueComparable>; Any is todo!()
is_comparable(v) ==
    CASE v.t = "Any" -> Panic("not yet implemented")
      [] v.t = "Number" -> [k |-> "Some", c |-> "Number"]
      [] v.t = "ExactInteger" -> [k |-> "Some", c |-> "Num", n |-> v.n]
      [] OTHER -> [k |-> "None"]

\* lines 529-537: Option<ValueAddable>; ExactString is todo!()
is_addable(v) ==
    CASE v.t = "ExactString" -> Panic("not yet implemented")
      [] v.t = "String" -> [k |-> "Some", c |-> "String"]
      [] v.t = "Number" -> [k |-> "Some", c |-> "Number"]
      [] v.t = "ExactInteger" -> [k |-> "Some", c |-> "Num", n |-> v.n]
      [] OTHER -> [k |-> "None"]

\* `*a + *b` on i64: a debug build panics on overflow, a release build wraps
AddI64(a, b) ==
    IF InRange(a + b) THEN [k |-> "Some", c |-> "Num", n |-> a + b]
    ELSE IF debug_assertions THEN Panic("attempt to add with overflow")
    ELSE [k |-> "Some", c |-> "Num", n |-> Wrap(a + b)]

\* an addition that takes a string and a number for a string
perform_addJoins(a, b) ==
    CASE a.c = "Number" /\ b.c = "Number" -> [k |-> "Some", c |-> "Number"]
      [] a.c = "Number" /\ b.c = "Num" -> [k |-> "Some", c |-> "Number"]
      [] a.c = "Num" /\ b.c = "Number" -> [k |-> "Some", c |-> "Number"]
      [] a.c = "Num" /\ b.c = "Num" -> AddI64(a.n, b.n)
      [] OTHER -> [k |-> "Some", c |-> "String"]

\* lines 553-569: Result<ValueAddable, AdditionError>
perform_add(a, b) ==
    CASE a.c = "Number" /\ b.c = "Number" -> [k |-> "Some", c |-> "Number"]
      [] a.c = "Number" /\ b.c = "Num" -> [k |-> "Some", c |-> "Number"]
      [] a.c = "Num" /\ b.c = "Number" -> [k |-> "Some", c |-> "Number"]
      [] a.c = "Num" /\ b.c = "Num" -> AddI64(a.n, b.n)
      [] a.c = "String" /\ b.c = "String" -> [k |-> "Some", c |-> "String"]
      [] OTHER -> [k |-> "Err", e |-> "IncompatibleTypes"]

\* a comparison that folds exact integers with <= in place of <
perform_less_thanOrEqual(a, b) ==
    IF a.c = "Number" \/ b.c = "Number" THEN [c |-> "Boolean"]
    ELSE [c |-> "Bool", b |-> a.n <= b.n]

\* lines 576-588
perform_less_than(a, b) ==
    IF a.c = "Number" \/ b.c = "Number" THEN [c |-> "Boolean"]
    ELSE [c |-> "Bool", b |-> a.n < b.n]

\* lines 594-611: IntoValueType
conditional_into_value_type(c) ==
    IF c.c = "Boolean" THEN Boolean ELSE Bool(c.b)

addable_into_value_type(a) ==
    CASE a.c = "Number" -> Number
      [] a.c = "Num" -> ExactInteger(a.n)
      [] a.c = "String" -> String

\* a coercion test that takes a pointer of any width for a pointer
can_coerceAnyWidth(v, ffi) ==
    \/ ffi.f = "Any" /\ v.t \in {"Any", "String", "ExactString", "Number",
                                 "ExactInteger", "Boolean", "Bool"}
    \/ ffi.f = "Runtime" /\ v.t = "Runtime"
    \/ ffi.f = "Word" /\ v.t = "Word"
    \/ ffi.f = "String" /\ v.t \in {"String", "ExactString"}
    \/ ffi.f = "Pointer" /\ v.t = "Pointer"

\* lines 618-645: FFICoerce::can_coerce(value_type, ffi)
can_coerce(v, ffi) ==
    \/ ffi.f = "Any" /\ v.t \in {"Any", "String", "ExactString", "Number",
                                 "ExactInteger", "Boolean", "Bool"}
    \/ ffi.f = "Runtime" /\ v.t = "Runtime"
    \/ ffi.f = "Word" /\ v.t = "Word"
    \/ ffi.f = "String" /\ v.t \in {"String", "ExactString"}
    \/ ffi.f = "Pointer" /\ v.t = "Pointer" /\ ffi.w = v.w

\* unify absorbs what it is given when it holds Never
unifyNeverAbsorbs(self, other) ==
    CASE self.k = "Value" /\ other.k = "Value" -> Panic("not yet implemented: unify 2 values")
      [] self.k = "Never" -> self
      [] self = other -> self
      [] other.k = "Never" -> self
      [] self.k = "Void" /\ other.k = "Value" -> Panic("not yet implemented")
      [] self.k = "Value" /\ other.k = "Void" -> Panic("not yet implemented")

\* unify keeps what it holds when it is given a return type of another kind
unifyKeepsSelf(self, other) ==
    CASE self.k = "Value" /\ other.k = "Value" -> Panic("not yet implemented: unify 2 values")
      [] self = other -> self
      [] self.k = "Never" -> other
      [] other.k = "Never" -> self
      [] self.k = "Void" /\ other.k = "Value" -> self
      [] self.k = "Value" /\ other.k = "Void" -> self

\* lines 647-663: ReturnType::unify(&mut self, other), the new *self
unify(self, other) ==
    CASE self.k = "Value" /\ other.k = "Value" -> Panic("not yet implemented: unify 2 values")
      [] self = other -> self
      [] self.k = "Never" -> other
      [] other.k = "Never" -> self
      [] self.k = "Void" /\ other.k = "Value" -> Panic("not yet implemented")
      [] self.k = "Value" /\ other.k = "Void" -> Panic("not yet implemented")

(***************************************************************************)
(* The IR the annotater reads: blocks of instructions with one terminator. *)
(* An Option<RegisterId> is << >> or <<r>>.                                *)
(***************************************************************************)
None == << >>
Some(r) == <<r>>

GetRuntime(reg) == [op |-> "GetRuntime", reg |-> reg]
MakeString(reg, str) == [op |-> "MakeString", reg |-> reg, str |-> str]
MakeInteger(reg, value) == [op |-> "MakeInteger", reg |-> reg, value |-> value]
CompareLessThan(reg, lhs, rhs) == [op |-> "CompareLessThan", reg |-> reg, lhs |-> lhs, rhs |-> rhs]
Add(reg, lhs, rhs) == [op |-> "Add", reg |-> reg, lhs |-> lhs, rhs |-> rhs]
Call(result, func, args) == [op |-> "Call", result |-> result, func |-> func, args |-> args]
External(id) == [callable |-> "External", id |-> id]
Static(id) == [callable |-> "Static", id |-> id]

BasicBlockJump(block, args) == [block |-> block, args |-> args]
Jmp(target) == [end |-> "Jmp", target |-> target]
JmpIf(condition, true_path, false_path) ==
    [end |-> "JmpIf", condition |-> condition, true_path |-> true_path,
     false_path |-> false_path]
Ret(reg) == [end |-> "Ret", reg |-> reg]

Block(parameters, instructions, end) ==
    [parameters |-> parameters, instructions |-> instructions, end |-> end]

ExternalFunction(parameters, return_type) ==
    [parameters |-> parameters, return_type |-> return_type]

\* struct BlockExecutionKey
BlockExecutionKey(id, parameters) == [id |-> id, parameters |-> parameters]

(***************************************************************************)
(* The IR programs explored.  Each gives the PureBlocks (block id ->       *)
(* Block), the entrypoints (function id -> entry block), the external      *)
(* functions, and the root keys explore_fn is started with (annotate uses  *)
(* the entry block with no parameters).                                    *)
(***************************************************************************)
Program(blocks, entrypoints, ext_fns, roots) ==
    [blocks |-> blocks, entrypoints |-> entrypoints, ext_fns |-> ext_fns,
     roots |-> roots]

\* spec section 8: print(Runtime, Any, Any) -> Void, called once by main
MainPrint ==
    Program(
        <<Block(<< >>,
                <<GetRuntime(0), MakeString(1, 0),
                  Call(None, External(1), <<0, 1, 1>>)>>,
                Ret(None))>>,
        <<1>>,
        <<ExternalFunction(<<FFIRuntime, FFIAny, FFIAny>>, FFIVoid)>>,
        {BlockExecutionKey(1, << >>)})

\* f() { r0 = f(); return r0 }
SelfRec ==
    Program(
        <<Block(<< >>, <<Call(Some(0), Static(1), << >>)>>, Ret(Some(0)))>>,
        <<1>>, << >>,
        {BlockExecutionKey(1, << >>)})

\* f() { r0 = g(); return r0 }   g() { r0 = f(); return r0 }
MutualRec ==
    Program(
        <<Block(<< >>, <<Call(Some(0), Static(2), << >>)>>, Ret(Some(0))),
          Block(<< >>, <<Call(Some(0), Static(1), << >>)>>, Ret(Some(0)))>>,
        <<1, 2>>, << >>,
        {BlockExecutionKey(1, << >>)})

\* f() { f(); r0 = 1; jump b2 }   b2: return
NeverThenMore ==
    Program(
        <<Block(<< >>,
                <<Call(None, Static(1), << >>), MakeInteger(0, 1)>>,
                Jmp(BasicBlockJump(2, << >>))),
          Block(<< >>, << >>, Ret(None))>>,
        <<1>>, << >>,
        {BlockExecutionKey(1, << >>)})

\* b1: jump b2     b2: jump b1
JumpLoop ==
    Program(
        <<Block(<< >>, << >>, Jmp(BasicBlockJump(2, << >>))),
          Block(<< >>, << >>, Jmp(BasicBlockJump(1, << >>)))>>,
        <<1>>, << >>,
        {BlockExecutionKey(1, << >>)})

\* b1: r0 = MaxInt - 2; jump b2(r0)     b2(r0): r2 = r0 + 1; jump b2(r2)
CountLoop ==
    Program(
        <<Block(<< >>, <<MakeInteger(0, MaxInt - 2)>>, Jmp(BasicBlockJump(2, <<0>>))),
          Block(<<0>>, <<MakeInteger(1, 1), Add(2, 0, 1)>>,
                Jmp(BasicBlockJump(2, <<2>>)))>>,
        <<1>>, << >>,
        {BlockExecutionKey(1, << >>)})

\* main() { r0 = MaxInt - 1; r1 = f(r0); return r1 }
\* f(r0) { r2 = r0 + 1; r3 = f(r2); return r3 }
RecGrowing ==
    Program(
        <<Block(<< >>, <<MakeInteger(0, MaxInt - 1), Call(Some(1), Static(2), <<0>>)>>,
                Ret(Some(1))),
          Block(<<0>>,
                <<MakeInteger(1, 1), Add(2, 0, 1), Call(Some(3), Static(2), <<2>>)>>,
                Ret(Some(3)))>>,
        <<1, 2>>, << >>,
        {BlockExecutionKey(1, << >>)})

\* main() { r0 = 1; r1 = g(r0); r2 = g(r0); h(); r3 = r1 < r2; jumpif r3 b4 b5 }
\* g(r0) { return r0 }    h() { return }    b4: return r1    b5: return r2
CallTwice ==
    Program(
        <<Block(<< >>,
                <<MakeInteger(0, 1), Call(Some(1), Static(2), <<0>>),
                  Call(Some(2), Static(2), <<0>>), Call(None, Static(3), << >>),
                  CompareLessThan(3, 1, 2)>>,
                JmpIf(3, BasicBlockJump(4, <<1>>), BasicBlockJump(5, <<2>>))),
          Block(<<0>>, << >>, Ret(Some(0))),
          Block(<< >>, << >>, Ret(None)),
          Block(<<0>>, << >>, Ret(Some(0))),
          Block(<<0>>, << >>, Ret(Some(0)))>>,
        <<1, 2, 3>>, << >>,
        {BlockExecutionKey(1, << >>)})

\* main(b) { f(b); loop: goto loop }   f(b) { if b goto loop else return }
\* explored from a key whose parameter is Boolean: the block loop is visited by
\* the call of f, which returns Void, and by the call of main, which never returns
SharedLoop ==
    Program(
        <<Block(<<0>>, <<Call(None, Static(2), <<0>>)>>, Jmp(BasicBlockJump(4, << >>))),
          Block(<<0>>, << >>,
                JmpIf(0, BasicBlockJump(4, << >>), BasicBlockJump(3, << >>))),
          Block(<< >>, << >>, Ret(None)),
          Block(<< >>, << >>, Jmp(BasicBlockJump(4, << >>)))>>,
        <<1, 2>>, << >>,
        {BlockExecutionKey(1, <<Boolean>>)})

\* f(r0): if r0 { jump b2 } else { jump b3 }; b2: jump b4; b3: return; b4: return.
\* Explored from f(Boolean): the second branch is found before the block after
\* the first.
Diamond ==
    Program(
        <<Block(<<0>>, << >>, JmpIf(0, BasicBlockJump(2, << >>), BasicBlockJump(3, << >>))),
          Block(<< >>, << >>, Jmp(BasicBlockJump(4, << >>))),
          Block(<< >>, << >>, Ret(None)),
          Block(<< >>, << >>, Ret(None))>>,
        <<1>>, << >>,
        {BlockExecutionKey(1, <<Boolean>>)})

\* main: r0 = 1; call f(r0) without a result register; return.  f(r0): return r0.
ValueUnused ==
    Program(
        <<Block(<< >>, <<MakeInteger(0, 1), Call(None, Static(2), <<0>>)>>, Ret(None)),
          Block(<<0>>, << >>, Ret(Some(0)))>>,
        <<1, 2>>, << >>,
        {BlockExecutionKey(1, << >>)})

\* the programs written out above
Catalogue ==
    {MainPrint, SelfRec, MutualRec, NeverThenMore, JumpLoop, CountLoop, RecGrowing,
     CallTwice, SharedLoop, Diamond, ValueUnused}

(***************************************************************************)
(* A family of small programs: main() in block 1, f(r0) in block 2, a      *)
(* block 3 to jump to, and one external function ext(Any) -> Any.  The     *)
(* bodies and terminators of blocks 1 and 2 are combined freely, so that   *)
(* registers may be missing, types may not fit, calls may recurse and      *)
(* jumps may loop.                                                         *)
(***************************************************************************)
GenBodies1 ==
    {<<MakeInteger(0, 1)>>,
     <<MakeInteger(0, 1), Call(Some(1), Static(2), <<0>>)>>,
     <<MakeInteger(0, 1), Call(None, Static(1), << >>)>>,
     <<MakeInteger(0, MaxInt), MakeInteger(1, 1), Add(0, 0, 1)>>,
     <<MakeInteger(0, 1), CompareLessThan(1, 0, 0)>>,
     <<MakeInteger(0, 1), Call(Some(1), External(1), <<0>>)>>}

GenEnds1 ==
    {Ret(None), Ret(Some(0)), Ret(Some(1)),
     Jmp(BasicBlockJump(1, << >>)),
     Jmp(BasicBlockJump(2, <<0>>)),
     JmpIf(1, BasicBlockJump(3, << >>), BasicBlockJump(1, << >>))}

GenBodies2 ==
    {<< >>,
     <<Call(Some(1), Static(2), <<0>>)>>,
     <<Call(Some(1), Static(1), << >>)>>,
     <<MakeInteger(1, 1), Add(0, 0, 1), Call(Some(1), Static(2), <<0>>)>>}

GenEnds2 ==
    {Ret(None), Ret(Some(0)), Ret(Some(1)), Jmp(BasicBlockJump(2, <<0>>))}

Generated ==
    {Program(<<Block(<< >>, b1, e1), Block(<<0>>, b2, e2),
               Block(<< >>, << >>, Ret(None))>>,
             <<1, 2>>,
             <<ExternalFunction(<<FFIAny>>, FFIValue(FFIAny))>>,
             {BlockExecutionKey(1, << >>)}) :
        b1 \in GenBodies1, e1 \in GenEnds1, b2 \in GenBodies2, e2 \in GenEnds2}

(***************************************************************************)
(* A second family: explore_fn is asked for a key of block 1 whose         *)
(* parameters r0, r1 have types of one's choosing (annotate itself asks    *)
(* for the entry block with no parameters), among them the abstract types  *)
(* no instruction produces.  Block 1 does one thing with r0, r1 and ends   *)
(* in a return or a conditional jump; block 2 (one parameter) jumps on to  *)
(* block 3, which returns.  The external functions are                     *)
(* ext1(Any, String) -> Pointer(16) and ext2(Runtime) -> Void.  A key with *)
(* one argument only does not fit the two parameters of block 1.  The last  *)
(* four programs branch on a Boolean to two blocks that each return.       *)
(***************************************************************************)
RootTypes ==
    {Any, Runtime, String, ExactString(0), Number, ExactInteger(1),
     ExactInteger(MaxInt), Boolean, Bool(TRUE), Bool(FALSE), Pointer(16)}

Parametrised ==
    LET bodies == {<< >>,
                   <<CompareLessThan(2, 0, 1)>>,
                   <<Add(2, 0, 1)>>,
                   <<Call(Some(2), External(1), <<0, 1>>)>>,
                   <<Call(None, External(2), <<0>>)>>,
                   <<Call(Some(2), External(2), <<0>>)>>,
                   <<Call(None, External(1), <<0>>)>>}
        ends == {Ret(None), Ret(Some(2)),
                 JmpIf(0, BasicBlockJump(2, <<1>>), BasicBlockJump(3, << >>)),
                 JmpIf(2, BasicBlockJump(3, << >>), BasicBlockJump(2, <<0>>))}
    IN  {Program(<<Block(<<0, 1>>, b, e),
                   Block(<<0>>, << >>, Jmp(BasicBlockJump(3, << >>))),
                   Block(<< >>, << >>, Ret(None))>>,
                 <<1>>,
                 <<ExternalFunction(<<FFIAny, FFIString>>, FFIValue(FFIPointer(16))),
                   ExternalFunction(<<FFIRuntime>>, FFIVoid)>>,
                 {BlockExecutionKey(1, <<x, y>>) : x \in RootTypes, y \in RootTypes}
                 \cup {BlockExecutionKey(1, <<x>>) : x \in RootTypes}) :
            b \in bodies, e \in ends}
        \cup {Program(<<Block(<<0, 1>>, << >>,
                             JmpIf(0, BasicBlockJump(2, <<1>>), BasicBlockJump(3, <<1>>))),
                       Block(<<0>>, << >>, Ret(x)),
                       Block(<<0>>, << >>, Ret(y))>>,
                     <<1>>, << >>,
                     {BlockExecutionKey(1, <<Boolean, v>>) : v \in {String, ExactInteger(1)}}) :
                x \in {None, Some(0)}, y \in {None, Some(0)}}

Programs == Catalogue \cup Generated \cup Parametrised

\* PureBlocks::get_block, the entrypoints and the external functions in use
get_block(id) == prog.blocks[id]
entrypoints(id) == prog.entrypoints[id]
ext_fns(id) == prog.ext_fns[id]

(***************************************************************************)
(* struct Executions, lines 59-113: block id -> Vec<(params, execution)>.  *)
(***************************************************************************)
InProgress(key) == [s |-> "InProgress", key |-> key]
Finished(key) == [s |-> "Finished", key |-> key]

\* BlockId::new()
NewBlockId == 0
\* struct BlockKey { function: new_fn_ids.next(), block: BlockId::new() }
BlockKey(n) == [function |-> n, block |-> NewBlockId]
\* no BlockKey minted (yet)
NoKey == [function |-> 0, block |-> NewBlockId]

\* the index of the first pair of a Vec whose params equal the given ones, or 0
FirstMatch(blocks, parameters) ==
    IF \E i \in DOMAIN blocks : blocks[i].params = parameters
    THEN CHOOSE i \in DOMAIN blocks :
             /\ blocks[i].params = parameters
             /\ \A j \in 1 .. (i - 1) : blocks[j].params # parameters
    ELSE 0

\* Executions::get, lines 71-79: Option<&BlockExecution>
Executions_get(ex, key) ==
    IF key.id \in DOMAIN ex /\ FirstMatch(ex[key.id], key.parameters) # 0
    THEN [k |-> "Some", e |-> ex[key.id][FirstMatch(ex[key.id], key.parameters)].exec]
    ELSE [k |-> "None"]

\* Executions::insert, lines 81-94
\* an insert that pushes a new pair whatever the table holds
Executions_insertPushes(ex, key, execution) ==
    LET blocks == IF key.id \in DOMAIN ex THEN ex[key.id] ELSE << >>
    IN  MapInsert(ex, key.id,
            Append(blocks, [params |-> key.parameters, exec |-> execution]))

Executions_insert(ex, key, execution) ==
    LET blocks == IF key.id \in DOMAIN ex THEN ex[key.id] ELSE << >>
        i == FirstMatch(blocks, key.parameters)
    IN  MapInsert(ex, key.id,
            IF i # 0 THEN [blocks EXCEPT ![i].exec = execution]
            ELSE Append(blocks, [params |-> key.parameters, exec |-> execution]))

\* Executions::all_fn_invocations, lines 96-103, as a set
all_fn_invocations(ex) ==
    UNION {{[id |-> b, parameters |-> ex[b][i].params, exec |-> ex[b][i].exec] :
                i \in 1 .. Len(ex[b])} : b \in DOMAIN ex}

(***************************************************************************)
(* The explore_fn tasks.  A task is at                                     *)
(*   "start"  : line 196, explore_fn was called and has done nothing,      *)
(*   "loop"   : line 234, at the head of the worklist loop,                *)
(*   "block"  : inside explore_block, before instruction pc (the           *)
(*              terminator when pc is past the last instruction),          *)
(*   "await"  : line 370, awaiting the JoinHandle of a static callee,      *)
(*   "resume" : line 375, the JoinHandle has produced got.                 *)
(***************************************************************************)
NewTask(block) ==
    [st |-> "start", block |-> block, key |-> NoKey, return_type |-> Never,
     eval_blocks |-> << >>, block_stack |-> << >>, cur |-> block, types |-> << >>,
     pc |-> 0, got |-> Pending]

ARunning == apanic = "none"
Top == Head(tasks)
\* the task that would take or holds the lock is the innermost one
Me == Len(tasks)

\* replace the innermost task
SetTop(t) == <<t>> \o Tail(tasks)

\* a panic unwinds every task; the guard of the Mutex is dropped on the way
APanic(msg) ==
    /\ apanic' = msg
    /\ lock' = 0
    /\ UNCHANGED <<prog, debug_assertions, executions, typed_blocks, new_fn_ids,
                   tasks, evaluated, root_result>>

\* the innermost task returns ret: to the task awaiting it, or to annotate
ReturnToCaller(ret) ==
    IF Len(tasks) = 1
    THEN /\ tasks' = << >>
         /\ root_result' = ret
    ELSE /\ tasks' = <<[tasks[2] EXCEPT !.st = "resume", !.got = ret]>>
                       \o Tail(Tail(tasks))
         /\ UNCHANGED root_result

(***************************************************************************)
(* explore_fn, lines 196-225: the lookup under the lock.                   *)
(***************************************************************************)
\* a first request that explores the key without marking it in the memo
OnAbsentUnmarked ==
    LET block_key == BlockKey(new_fn_ids + 1)
    IN  /\ new_fn_ids' = new_fn_ids + 1
        /\ executions' = executions
        /\ tasks' = SetTop([Top EXCEPT !.st = "loop", !.key = block_key,
                                       !.return_type = Never, !.eval_blocks = << >>,
                                       !.block_stack = <<Top.block>>])
        /\ lock' = 0
        /\ UNCHANGED <<prog, debug_assertions, typed_blocks, evaluated, root_result,
                       apanic>>

\* lines 212-232: the first request of the key
OnAbsent ==
    LET block_key == BlockKey(new_fn_ids + 1)
    IN  /\ new_fn_ids' = new_fn_ids + 1
        /\ executions' = Executions_insert(executions, Top.block, InProgress(block_key))
        /\ tasks' = SetTop([Top EXCEPT !.st = "loop", !.key = block_key,
                                       !.return_type = Never, !.eval_blocks = << >>,
                                       !.block_stack = <<Top.block>>])
        /\ lock' = 0
        /\ UNCHANGED <<prog, debug_assertions, typed_blocks, evaluated, root_result,
                       apanic>>

\* a lookup that explores a key again although it was explored to the end
OnFinishedReexplores(re) == OnAbsent

\* line 202-204: the key was explored before
OnFinished(re) ==
    IF re \in DOMAIN typed_blocks
    THEN /\ ReturnToCaller(typed_blocks[re].return_type)
         /\ lock' = 0
         /\ UNCHANGED <<prog, debug_assertions, executions, typed_blocks, new_fn_ids,
                        evaluated, apanic>>
    ELSE APanic("called Option::unwrap() on a None value")

\* a lookup that re-enters the key an enclosing task is exploring
OnInProgressReenters == OnAbsent

\* a lookup that waits for the enclosing exploration of the key to finish
OnInProgressWaits ==
    UNCHANGED <<prog, debug_assertions, executions, typed_blocks, new_fn_ids, lock,
                tasks, evaluated, root_result, apanic>>

\* line 211: the key is being explored by an enclosing task
OnInProgress ==
    /\ ReturnToCaller(Never)
    /\ lock' = 0
    /\ UNCHANGED <<prog, debug_assertions, executions, typed_blocks, new_fn_ids,
                   evaluated, apanic>>

explore_fn ==
    /\ ARunning /\ tasks # << >> /\ Top.st = "start"
    /\ IF lock # 0 THEN APanic("Lock should be contentionless")
       ELSE LET e == Executions_get(executions, Top.block)
            IN  IF e.k = "None" THEN OnAbsent
                ELSE IF e.e.s = "Finished" THEN OnFinished(e.e.key)
                ELSE OnInProgress
    /\ UNCHANGED <<gvars, pvars>>

(***************************************************************************)
(* explore_fn, lines 234-261: one turn of the worklist loop.               *)
(***************************************************************************)
\* a worklist that forgets what it has evaluated
has_evaled_blockNever(eval_blocks, exec_key) == FALSE

\* lines 235-239
has_evaled_block(eval_blocks, exec_key) ==
    \E i \in DOMAIN eval_blocks :
        eval_blocks[i].block = exec_key.id /\ eval_blocks[i].params = exec_key.parameters

\* the first min(Len(a), Len(b)) positions, as Iterator::zip pairs them
ZipLen(a, b) == IF Len(a) < Len(b) THEN Len(a) ELSE Len(b)

\* lines 283-288: types of the block's parameters
RECURSIVE BindParams(_, _, _, _)
BindParams(types, parameters, args, i) ==
    IF i > ZipLen(parameters, args) THEN types
    ELSE BindParams(MapInsert(types, parameters[i], args[i]), parameters, args, i + 1)

\* lines 241-243: the key was evaluated in this call already
LoopSkip ==
    /\ ARunning /\ tasks # << >> /\ Top.st = "loop" /\ Top.block_stack # << >>
    /\ has_evaled_block(Top.eval_blocks, Head(Top.block_stack))
    /\ tasks' = SetTop([Top EXCEPT !.block_stack = Tail(Top.block_stack)])
    /\ UNCHANGED <<prog, debug_assertions, executions, typed_blocks, new_fn_ids, lock,
                   evaluated, root_result, apanic>>
    /\ UNCHANGED <<gvars, pvars>>

\* lines 245-251 and 276-288: explore_block is entered for the popped key
LoopEnter ==
    /\ ARunning /\ tasks # << >> /\ Top.st = "loop" /\ Top.block_stack # << >>
    /\ ~has_evaled_block(Top.eval_blocks, Head(Top.block_stack))
    /\ LET exec_key == Head(Top.block_stack)
           block == get_block(exec_key.id)
       IN  IF lock # 0 THEN APanic("Lock should be contentionless")
           ELSE IF debug_assertions
                   /\ Len(block.parameters) # Len(exec_key.parameters)
           THEN APanic("assertion failed: (left == right)")
           ELSE /\ tasks' = SetTop([Top EXCEPT
                       !.block_stack = Tail(Top.block_stack),
                       !.st = "block", !.cur = exec_key, !.pc = 1,
                       !.types = BindParams(<< >>, block.parameters,
                                            exec_key.parameters, 1)])
                /\ lock' = Me
                /\ UNCHANGED <<prog, debug_assertions, executions, typed_blocks,
                               new_fn_ids, evaluated, root_result, apanic>>
    /\ UNCHANGED <<gvars, pvars>>

\* a finish that records the function under another key than the one minted
FnFinishRekeys ==
    /\ ARunning /\ tasks # << >> /\ Top.st = "loop" /\ Top.block_stack = << >>
    /\ IF lock # 0 THEN APanic("Lock should be contentionless")
       ELSE /\ executions' = Executions_insert(executions, Top.block,
                                               Finished(BlockKey(new_fn_ids + 1)))
            /\ typed_blocks' = MapInsert(typed_blocks, BlockKey(new_fn_ids + 1),
                                   [return_type |-> Top.return_type,
                                    eval_blocks |-> Top.eval_blocks])
            /\ ReturnToCaller(Top.return_type)
            /\ lock' = 0
            /\ UNCHANGED <<prog, debug_assertions, new_fn_ids, evaluated, apanic>>
    /\ UNCHANGED <<gvars, pvars>>

\* lines 263-273: the worklist is empty
FnFinish ==
    /\ ARunning /\ tasks # << >> /\ Top.st = "loop" /\ Top.block_stack = << >>
    /\ IF lock # 0 THEN APanic("Lock should be contentionless")
       ELSE /\ executions' = Executions_insert(executions, Top.block, Finished(Top.key))
            /\ typed_blocks' = MapInsert(typed_blocks, Top.key,
                                   [return_type |-> Top.return_type,
                                    eval_blocks |-> Top.eval_blocks])
            /\ ReturnToCaller(Top.return_type)
            /\ lock' = 0
            /\ UNCHANGED <<prog, debug_assertions, new_fn_ids, evaluated, apanic>>
    /\ UNCHANGED <<gvars, pvars>>

(***************************************************************************)
(* explore_block, lines 290-393: one instruction.                          *)
(***************************************************************************)
Ok(types) == [k |-> "Ok", types |-> types]
UnwrapNone == "called Option::unwrap() on a None value"

\* the instruction the innermost task is at, and its block
CurBlock == get_block(Top.cur.id)
AtInstruction == Top.st = "block" /\ Top.pc \in 1 .. Len(CurBlock.instructions)
AtTerminator == Top.st = "block" /\ Top.pc = Len(CurBlock.instructions) + 1
CurInst == CurBlock.instructions[Top.pc]

\* line 291 and 323: args = arg_regs.iter().map(map)
AllMapped(types, regs) == \A i \in DOMAIN regs : regs[i] \in DOMAIN types
MapArgs(types, regs) == [i \in DOMAIN regs |-> types[regs[i]]]

\* lines 304-312
EvalCompareLessThan(inst, types) ==
    IF inst.lhs \notin DOMAIN types THEN Panic(UnwrapNone)
    ELSE LET l == is_comparable(types[inst.lhs])
         IN  IF IsPanic(l) THEN l
             ELSE IF inst.rhs \notin DOMAIN types THEN Panic(UnwrapNone)
             ELSE LET r == is_comparable(types[inst.rhs])
                  IN  IF IsPanic(r) THEN r
                      ELSE IF l.k = "None"
                      THEN Panic("not implemented: LHS is uncomparable")
                      ELSE IF r.k = "None"
                      THEN Panic("not implemented: RHS is uncomparable")
                      ELSE Ok(MapInsert(types, inst.reg,
                                  conditional_into_value_type(perform_less_than(l, r))))

\* lines 313-321: the arm that tests the right operand reports the left one
EvalAdd(inst, types) ==
    IF inst.lhs \notin DOMAIN types THEN Panic(UnwrapNone)
    ELSE LET l == is_addable(types[inst.lhs])
         IN  IF IsPanic(l) THEN l
             ELSE IF inst.rhs \notin DOMAIN types THEN Panic(UnwrapNone)
             ELSE LET r == is_addable(types[inst.rhs])
                  IN  IF IsPanic(r) THEN r
                      ELSE IF r.k = "None"
                      THEN Panic("not implemented: LHS is uncomparable")
                      ELSE IF l.k = "None"
                      THEN Panic("not implemented: RHS is uncomparable")
                      ELSE LET s == perform_add(l, r)
                           IN  IF IsPanic(s) THEN s
                               ELSE IF s.k = "Err"
                               THEN Panic("should be able to add: IncompatibleTypes")
                               ELSE Ok(MapInsert(types, inst.reg,
                                                 addable_into_value_type(s)))

\* an external call that checks the arity but not the coercions
CheckCoercionsLax(args, parameters, types, msg) ==
    IF debug_assertions /\ Len(args) # Len(parameters)
    THEN Panic("assertion failed: (left == right)")
    ELSE Ok(types)

\* lines 338-341 and 348-357: the arity (debug builds) and every zipped pair
CheckCoercions(args, parameters, types, msg) ==
    IF debug_assertions /\ Len(args) # Len(parameters)
    THEN Panic("assertion failed: (left == right)")
    ELSE IF \E i \in 1 .. ZipLen(args, parameters) : ~can_coerce(args[i], parameters[i])
    THEN Panic(msg)
    ELSE Ok(types)

\* lines 322-358: a call of an external function
EvalCallExternal(inst, types) ==
    IF ~AllMapped(types, inst.args) THEN Panic(UnwrapNone)
    ELSE IF inst.func.id \notin DOMAIN prog.ext_fns THEN Panic(UnwrapNone)
    ELSE LET args == MapArgs(types, inst.args)
             ext_fn == ext_fns(inst.func.id)
         IN  IF inst.result # None
             THEN IF ext_fn.return_type = FFIVoid
                  THEN Panic("not yet implemented: figure out what to do with void return type being assigned")
                  ELSE CheckCoercions(args, ext_fn.parameters,
                           MapInsert(types, inst.result[1],
                               ffi_value_type_to_value_type(ext_fn.return_type.v)),
                           "assertion failed: FFICoerce::can_coerce(arg_typ, ffi_typ)")
             ELSE CheckCoercions(args, ext_fn.parameters, types, "cannot coerce")

\* lines 293-358: every instruction but a static call
EvalInst(inst, types) ==
    CASE inst.op = "GetRuntime" -> Ok(MapInsert(types, inst.reg, Runtime))
      [] inst.op = "MakeString" -> Ok(MapInsert(types, inst.reg, ExactString(inst.str)))
      [] inst.op = "MakeInteger" -> Ok(MapInsert(types, inst.reg, ExactInteger(inst.value)))
      [] inst.op = "CompareLessThan" -> EvalCompareLessThan(inst, types)
      [] inst.op = "Add" -> EvalAdd(inst, types)
      [] inst.op = "Call" -> EvalCallExternal(inst, types)

IsStaticCall(inst) == inst.op = "Call" /\ inst.func.callable = "Static"

\* what has been evaluated: the task, its block key and the position in it
Evaluation == [task |-> Me, key |-> Top.cur, pc |-> Top.pc]

ExecInst ==
    /\ ARunning /\ tasks # << >> /\ AtInstruction /\ ~IsStaticCall(CurInst)
    /\ LET r == EvalInst(CurInst, Top.types)
       IN  IF IsPanic(r) THEN APanic(r.msg)
           ELSE /\ tasks' = SetTop([Top EXCEPT !.types = r.types, !.pc = Top.pc + 1])
                /\ evaluated' = Append(evaluated, Evaluation)
                /\ UNCHANGED <<prog, debug_assertions, executions, typed_blocks,
                               new_fn_ids, lock, root_result, apanic>>
    /\ UNCHANGED <<gvars, pvars>>

\* a static call that awaits its callee with the engine lock still held
CallStaticKeepsLock ==
    /\ ARunning /\ tasks # << >> /\ AtInstruction /\ IsStaticCall(CurInst)
    /\ IF ~AllMapped(Top.types, CurInst.args) THEN APanic(UnwrapNone)
       ELSE IF CurInst.func.id \notin DOMAIN prog.entrypoints
       THEN APanic(UnwrapNone)
       ELSE LET key == BlockExecutionKey(entrypoints(CurInst.func.id),
                                         MapArgs(Top.types, CurInst.args))
            IN  /\ tasks' = <<NewTask(key)>> \o SetTop([Top EXCEPT !.st = "await"])
                /\ lock' = lock
                /\ evaluated' = Append(evaluated, Evaluation)
                /\ UNCHANGED <<prog, debug_assertions, executions, typed_blocks,
                               new_fn_ids, root_result, apanic>>
    /\ UNCHANGED <<gvars, pvars>>

\* lines 359-373: the lock is dropped and the callee is spawned and awaited
CallStatic ==
    /\ ARunning /\ tasks # << >> /\ AtInstruction /\ IsStaticCall(CurInst)
    /\ IF ~AllMapped(Top.types, CurInst.args) THEN APanic(UnwrapNone)
       ELSE IF CurInst.func.id \notin DOMAIN prog.entrypoints
       THEN APanic(UnwrapNone)
       ELSE LET key == BlockExecutionKey(entrypoints(CurInst.func.id),
                                         MapArgs(Top.types, CurInst.args))
            IN  /\ tasks' = <<NewTask(key)>> \o SetTop([Top EXCEPT !.st = "await"])
                /\ lock' = 0
                /\ evaluated' = Append(evaluated, Evaluation)
                /\ UNCHANGED <<prog, debug_assertions, executions, typed_blocks,
                               new_fn_ids, root_result, apanic>>
    /\ UNCHANGED <<gvars, pvars>>

\* a caller that lets a Void answer pass when a result register is waiting
OnCalleeReturnLax(result, ret_type, types) ==
    CASE ret_type.k = "Void" -> Ok(types)
      [] ret_type.k = "Value" /\ result # None ->
            Ok(MapInsert(types, result[1], ret_type.v))
      [] ret_type.k = "Value" /\ result = None -> Ok(types)
      [] ret_type.k = "Never" -> Panic("not yet implemented: return never")

\* lines 375-386: what the caller does with the callee's return type
OnCalleeReturn(result, ret_type, types) ==
    CASE ret_type.k = "Void" /\ result = None -> Ok(types)
      [] ret_type.k = "Void" /\ result # None ->
            Panic("not yet implemented: figure out what to do")
      [] ret_type.k = "Value" /\ result # None ->
            Ok(MapInsert(types, result[1], ret_type.v))
      [] ret_type.k = "Value" /\ result = None -> Ok(types)
      [] ret_type.k = "Never" -> Panic("not yet implemented: return never")

\* lines 375-388: the JoinHandle is ready; the lock is taken again
CallResume ==
    /\ ARunning /\ tasks # << >> /\ Top.st = "resume"
    /\ LET r == OnCalleeReturn(CurInst.result, Top.got, Top.types)
       IN  IF IsPanic(r) THEN APanic(r.msg)
           ELSE IF lock # 0 THEN APanic("Lock should be contentionless")
           ELSE /\ tasks' = SetTop([Top EXCEPT !.st = "block", !.types = r.types,
                                               !.pc = Top.pc + 1, !.got = Pending])
                /\ lock' = Me
                /\ UNCHANGED <<prog, debug_assertions, executions, typed_blocks,
                               new_fn_ids, evaluated, root_result, apanic>>
    /\ UNCHANGED <<gvars, pvars>>

(***************************************************************************)
(* explore_block, lines 395-439: the terminator.                           *)
(***************************************************************************)
Branch(next) == [k |-> "Branch", next |-> next]
Complete(ret) == [k |-> "Complete", ret |-> ret]

\* lines 395-406
map_bsc_blk_jmp(jmp, types) == BlockExecutionKey(jmp.block, MapArgs(types, jmp.args))

\* a conditional jump that takes both paths whatever it knows of the condition
jmpif_pathsBoth(cond, end) == <<end.true_path, end.false_path>>

\* a conditional jump that takes the true path whatever the condition
jmpif_pathsTrueOnly(cond, end) == <<end.true_path>>

\* lines 419-426: the paths a conditional jump takes, given its condition
jmpif_paths(cond, end) ==
    IF cond = Bool(TRUE) THEN <<end.true_path>>
    ELSE IF cond = Bool(FALSE) THEN <<end.false_path>>
    ELSE <<end.true_path, end.false_path>>

\* lines 408-433
control_flow(end, types) ==
    CASE end.end = "Jmp" ->
            IF AllMapped(types, end.target.args)
            THEN Branch(<<map_bsc_blk_jmp(end.target, types)>>)
            ELSE Panic("in key -> jmp_block(r)")
      [] end.end = "JmpIf" ->
            IF end.condition \notin DOMAIN types THEN Panic(UnwrapNone)
            ELSE LET cond == types[end.condition]
                     paths == jmpif_paths(cond, end)
                 IN  IF cond.t \notin {"Bool", "Boolean"}
                     THEN Panic("not implemented: cannot operate on condition")
                     ELSE IF \E i \in DOMAIN paths : ~AllMapped(types, paths[i].args)
                     THEN Panic("in key -> jmp_block(r)")
                     ELSE Branch([i \in DOMAIN paths |-> map_bsc_blk_jmp(paths[i], types)])
      [] end.end = "Ret" /\ end.reg # None ->
            IF end.reg[1] \in DOMAIN types THEN Complete(Value(types[end.reg[1]]))
            ELSE Panic(UnwrapNone)
      [] end.end = "Ret" /\ end.reg = None -> Complete(Void)

\* a worklist that puts the successors in front of the keys still waiting
TerminatorPushesFront ==
    /\ ARunning /\ tasks # << >> /\ AtTerminator
    /\ LET cf == control_flow(CurBlock.end, Top.types)
           rt == IF cf.k = "Complete" THEN unify(Top.return_type, cf.ret)
                 ELSE Top.return_type
       IN  IF IsPanic(cf) THEN APanic(cf.msg)
           ELSE IF IsPanic(rt) THEN APanic(rt.msg)
           ELSE /\ tasks' = SetTop([Top EXCEPT
                       !.st = "loop",
                       !.block_stack = IF cf.k = "Branch" THEN cf.next \o @ ELSE @,
                       !.return_type = rt,
                       !.eval_blocks = Append(@, [block |-> Top.cur.id,
                                                  params |-> Top.cur.parameters,
                                                  control_flow |-> cf,
                                                  types |-> Top.types])])
                /\ lock' = 0
                /\ evaluated' = Append(evaluated, Evaluation)
                /\ UNCHANGED <<prog, debug_assertions, executions, typed_blocks,
                               new_fn_ids, root_result, apanic>>
    /\ UNCHANGED <<gvars, pvars>>

\* lines 395-439 and 253-260: explore_block returns (dropping the lock) and
\* explore_fn queues the successors or unifies the return type
Terminator ==
    /\ ARunning /\ tasks # << >> /\ AtTerminator
    /\ LET cf == control_flow(CurBlock.end, Top.types)
           rt == IF cf.k = "Complete" THEN unify(Top.return_type, cf.ret)
                 ELSE Top.return_type
       IN  IF IsPanic(cf) THEN APanic(cf.msg)
           ELSE IF IsPanic(rt) THEN APanic(rt.msg)
           ELSE /\ tasks' = SetTop([Top EXCEPT
                       !.st = "loop",
                       !.block_stack = IF cf.k = "Branch" THEN @ \o cf.next ELSE @,
                       !.return_type = rt,
                       !.eval_blocks = Append(@, [block |-> Top.cur.id,
                                                  params |-> Top.cur.parameters,
                                                  control_flow |-> cf,
                                                  types |-> Top.types])])
                /\ lock' = 0
                /\ evaluated' = Append(evaluated, Evaluation)
                /\ UNCHANGED <<prog, debug_assertions, executions, typed_blocks,
                               new_fn_ids, root_result, apanic>>
    /\ UNCHANGED <<gvars, pvars>>

(***************************************************************************)
(* SymbolicEngine::extract, lines 695-757.                                 *)
(***************************************************************************)
\* extract was not called, and no pure function either
NotExtracted == [k |-> "None"]
NoCall == [fn |-> "none"]

RECURSIVE Flatten(_)
Flatten(seqs) == IF seqs = << >> THEN << >> ELSE Head(seqs) \o Flatten(Tail(seqs))

\* an extraction that materializes the memo entries of one block id only
blocks_and_argsFirstOnly(order) ==
    Flatten([j \in DOMAIN executions[order[1]] |->
        LET e == executions[order[1]][j]
            eb == IF e.exec.key \in DOMAIN typed_blocks
                  THEN typed_blocks[e.exec.key].eval_blocks ELSE << >>
        IN  <<[block |-> order[1], params |-> e.params, key |-> e.exec.key]>>
            \o [i \in DOMAIN eb |->
                   [block |-> eb[i].block, params |-> eb[i].params,
                    key |-> e.exec.key]]])

\* lines 708-714: the blocks_and_args of every invocation, one after the other;
\* order is the order in which the FxHashMap of the memo yields its block ids
blocks_and_args(order) ==
    Flatten([o \in DOMAIN order |->
        Flatten([j \in DOMAIN executions[order[o]] |->
            LET e == executions[order[o]][j]
                eb == IF e.exec.key \in DOMAIN typed_blocks
                      THEN typed_blocks[e.exec.key].eval_blocks ELSE << >>
            IN  <<[block |-> order[o], params |-> e.params, key |-> e.exec.key]>>
                \o [i \in DOMAIN eb |->
                       [block |-> eb[i].block, params |-> eb[i].params,
                        key |-> e.exec.key]]])])

\* lines 716-746: one turn of the inner loop for each of the items from i on
RECURSIVE ExtractFrom(_, _, _)
ExtractFrom(items, i, out) ==
    IF i > Len(items) THEN out
    ELSE LET it == items[i]
             annotated_blk_id == i
         IN  IF it.key \notin DOMAIN typed_blocks THEN Panic(UnwrapNone)
             ELSE LET typed_fn == typed_blocks[it.key]
                      found == {n \in DOMAIN typed_fn.eval_blocks :
                                   /\ typed_fn.eval_blocks[n].block = it.block
                                   /\ typed_fn.eval_blocks[n].params = it.params}
                  IN  IF found = {} THEN Panic(UnwrapNone)
                      ELSE LET n == CHOOSE n \in found : \A m \in found : n <= m
                           IN  ExtractFrom(items, i + 1,
                                 [k |-> "Ok",
                                  return_types |->
                                      MapInsert(out.return_types, annotated_blk_id,
                                                typed_fn.return_type),
                                  invocation_map |->
                                      MapInsert(out.invocation_map,
                                                BlockExecutionKey(it.block, it.params),
                                                annotated_blk_id),
                                  invocations |->
                                      Append(out.invocations,
                                             [args |-> it.params,
                                              registers |-> typed_fn.eval_blocks[n].types]),
                                  id_map |->
                                      MapInsert(out.id_map, annotated_blk_id,
                                                [block |-> it.block,
                                                 idx |-> Len(out.invocations)])])

\* the PureAnnotatedBlocks, or the panic
extract(order) ==
    ExtractFrom(blocks_and_args(order), 1,
                [k |-> "Ok", return_types |-> << >>, invocation_map |-> << >>,
                 invocations |-> << >>, id_map |-> << >>])

\* lines 760-769: PureAnnotatedBlocks::get_block_id
get_block_id(block_id, invocation_args) ==
    IF BlockExecutionKey(block_id, invocation_args) \in DOMAIN extracted.invocation_map
    THEN extracted.invocation_map[BlockExecutionKey(block_id, invocation_args)]
    ELSE Panic(UnwrapNone)

\* lines 771-781: PureAnnotatedBlocks::get_block; the tag holds a Vec index
annotated_get_block(block_id) ==
    IF block_id \notin DOMAIN extracted.id_map THEN Panic(UnwrapNone)
    ELSE LET tag == extracted.id_map[block_id]
         IN  IF tag.idx + 1 \notin DOMAIN extracted.invocations
             THEN Panic("index out of bounds")
             ELSE [k |-> "Ok", block |-> tag.block,
                   args |-> extracted.invocations[tag.idx + 1].args,
                   registers |-> extracted.invocations[tag.idx + 1].registers]

\* a lookup that answers with the return type of the id minted first
get_return_typeOfFirst(block_id) ==
    IF 1 \in DOMAIN extracted.return_types
    THEN extracted.return_types[1]
    ELSE Panic(UnwrapNone)

\* lines 783-785: PureAnnotatedBlocks::get_return_type
get_return_type(block_id) ==
    IF block_id \in DOMAIN extracted.return_types
    THEN extracted.return_types[block_id]
    ELSE Panic(UnwrapNone)

\* assembler.rs:215: the engine annotate returned is extracted, once
Extract ==
    /\ ARunning /\ tasks = << >> /\ root_result # Pending
    /\ extracted = NotExtracted
    /\ \E order \in {o \in [1 .. Cardinality(DOMAIN executions) -> DOMAIN executions] :
                        \A i, j \in DOMAIN o : o[i] = o[j] => i = j} :
           LET r == extract(order)
           IN  IF IsPanic(r) THEN APanic(r.msg) /\ UNCHANGED extracted
               ELSE /\ extracted' = r
                    /\ UNCHANGED avars
    /\ UNCHANGED <<gvars, applied, first_run, builder, symb>>


(***************************************************************************)
(* The pure functions of the annotater, applied to arguments of one's      *)
(* choosing.                                                               *)
(***************************************************************************)
\* enum ValueType, lines 472-506, with the integers, constants and pointer
\* widths of the model
ValueTypes ==
    {Any, Runtime, String, Number, Boolean, Word}
    \cup {ExactString(c) : c \in 0 .. MaxConst}
    \cup {ExactInteger(n) : n \in MinInt .. MaxInt}
    \cup {Bool(b) : b \in BOOLEAN}
    \cup {Pointer(w) : w \in {8, 16}}

\* enum ReturnType, lines 461-469
ReturnTypes == {Void, Never} \cup {Value(v) : v \in ValueTypes}

\* enum FFIValueType
FFIValueTypes == {FFIAny, FFIRuntime, FFIString, FFIWord, FFIPointer(8), FFIPointer(16)}

\* enum ValueAddable and enum ValueComparable: what the operand tests let through
Addables ==
    {is_addable(v) : v \in {w \in ValueTypes : w.t # "ExactString"}}
    \ {[k |-> "None"]}
Comparables ==
    {is_comparable(v) : v \in {w \in ValueTypes : w.t # "Any"}} \ {[k |-> "None"]}

ApplyUnify ==
    /\ \E self \in ReturnTypes, other \in ReturnTypes :
           applied' = [fn |-> "unify", self |-> self, other |-> other,
                       out |-> unify(self, other)]
    /\ UNCHANGED <<gvars, avars, extracted, first_run, builder, symb>>

ApplyCanCoerce ==
    /\ \E value_type \in ValueTypes, ffi \in FFIValueTypes :
           applied' = [fn |-> "can_coerce", value_type |-> value_type, ffi |-> ffi,
                       out |-> can_coerce(value_type, ffi)]
    /\ UNCHANGED <<gvars, avars, extracted, first_run, builder, symb>>

ApplyPerformAdd ==
    /\ \E self \in Addables, other \in Addables :
           applied' = [fn |-> "perform_add", self |-> self, other |-> other,
                       out |-> perform_add(self, other)]
    /\ UNCHANGED <<gvars, avars, extracted, first_run, builder, symb>>

ApplyPerformLessThan ==
    /\ \E self \in Comparables, other \in Comparables :
           applied' = [fn |-> "perform_less_than", self |-> self, other |-> other,
                       out |-> perform_less_than(self, other)]
    /\ UNCHANGED <<gvars, avars, extracted, first_run, builder, symb>>

ApplyIsComparable ==
    /\ \E self \in ValueTypes :
           applied' = [fn |-> "is_comparable", self |-> self, out |-> is_comparable(self)]
    /\ UNCHANGED <<gvars, avars, extracted, first_run, builder, symb>>

ApplyIsAddable ==
    /\ \E self \in ValueTypes :
           applied' = [fn |-> "is_addable", self |-> self, out |-> is_addable(self)]
    /\ UNCHANGED <<gvars, avars, extracted, first_run, builder, symb>>

(***************************************************************************)
(* struct Executions, lines 58-115, used on its own: any sequence of       *)
(* inserts and lookups over a few keys that differ in block id, in the     *)
(* length of the argument list and in the order of its elements.           *)
(***************************************************************************)
MemoKeys ==
    {BlockExecutionKey(1, << >>), BlockExecutionKey(1, <<Number>>),
     BlockExecutionKey(1, <<Number, String>>), BlockExecutionKey(1, <<String, Number>>),
     BlockExecutionKey(2, <<Number>>)}

ApplyExecutionsInsert ==
    /\ \E key \in MemoKeys, execution \in {InProgress(BlockKey(1)), Finished(BlockKey(1))} :
          /\ executions' = Executions_insert(executions, key, execution)
          /\ applied' = [fn |-> "insert", key |-> key, execution |-> execution]
    /\ UNCHANGED <<prog, debug_assertions, typed_blocks, new_fn_ids, lock, tasks,
                   evaluated, root_result, apanic>>
    /\ UNCHANGED <<gvars, extracted, first_run, builder, symb>>

ApplyExecutionsGet ==
    /\ \E key \in MemoKeys :
          applied' = [fn |-> "get", key |-> key, out |-> Executions_get(executions, key)]
    /\ UNCHANGED <<gvars, avars, extracted, first_run, builder, symb>>

(***************************************************************************)
(* annotate, lines 20-43: a fresh engine and the root explore_fn.          *)
(***************************************************************************)
\* ProgramBuilder::new, builder.rs lines 38-46; its user holds no builder yet
ProgramBuilder_new ==
    [functions |-> << >>, gen_function_id |-> 0, fns |-> {}, blks |-> {}, fins |-> {},
     started |-> 0, panic |-> "none", op |-> [name |-> "new"]]

\* no symbolic execution is going on
NoSymb == [program |-> << >>, ids |-> << >>, stack |-> << >>, panic |-> "none"]

\* SymbolicEngineToken::new, lines 176-189
NewEngine ==
    /\ executions = << >>
    /\ typed_blocks = << >>
    /\ new_fn_ids = 0
    /\ lock = 0
    /\ evaluated = << >>
    /\ root_result = Pending
    /\ apanic = "none"
    /\ extracted = NotExtracted
    /\ applied = NoCall
    /\ first_run = NotExtracted
    /\ builder = ProgramBuilder_new

\* no annotation is going on
InitEngineIdle ==
    /\ prog = MainPrint
    /\ debug_assertions = TRUE
    /\ NewEngine
    /\ symb = NoSymb
    /\ tasks = << >>

InitAnnot ==
    /\ behav = "free" /\ InitSystem
    /\ prog \in Programs
    /\ debug_assertions \in BOOLEAN
    /\ NewEngine
    /\ symb = NoSymb
    /\ \E root \in prog.roots : tasks = <<NewTask(root)>>

NextAnnot ==
    \/ explore_fn
    \/ LoopSkip
    \/ LoopEnter
    \/ FnFinish
    \/ ExecInst
    \/ CallStatic
    \/ CallResume
    \/ Terminator
    \/ Extract

SpecAnnot == InitAnnot /\ [][NextAnnot]_vars

\* the tokio runtime polls every task that is ready; whether the engine that
\* annotate returns is then extracted is up to the caller
SpecAnnotFair ==
    SpecAnnot /\ WF_vars(explore_fn \/ LoopSkip \/ LoopEnter \/ FnFinish \/ ExecInst
                              \/ CallStatic \/ CallResume \/ Terminator)

\* a fresh engine whose pure functions are called from outside
InitPure ==
    /\ behav = "free" /\ InitSystem
    /\ prog = MainPrint
    /\ debug_assertions \in BOOLEAN
    /\ NewEngine
    /\ symb = NoSymb
    /\ tasks = << >>

NextPure ==
    \/ ApplyUnify
    \/ ApplyCanCoerce
    \/ ApplyPerformAdd
    \/ ApplyPerformLessThan
    \/ ApplyIsComparable
    \/ ApplyIsAddable

SpecPure == InitPure /\ [][NextPure]_vars

NextMemo ==
    \/ ApplyExecutionsInsert
    \/ ApplyExecutionsGet

SpecMemo == InitPure /\ [][NextMemo]_vars

(***************************************************************************)
(* Two runs of annotate and extract over one program in one build: when    *)
(* the first run is over, with a table or with a panic, its outcome is     *)
(* kept and the program is given to a fresh engine.                        *)
(***************************************************************************)
\* lines 31-34: the key annotate asks for, which gets the first function id
RootKeyOf(ex) ==
    LET e == CHOOSE x \in all_fn_invocations(ex) : x.exec.key.function = 1
    IN  BlockExecutionKey(e.id, e.parameters)

Rerun ==
    /\ first_run = NotExtracted
    /\ executions # << >>
    /\ \/ ARunning /\ extracted # NotExtracted /\ first_run' = extracted
       \/ ~ARunning /\ first_run' = Panic(apanic)
    /\ tasks' = <<NewTask(RootKeyOf(executions))>>
    /\ executions' = << >>
    /\ typed_blocks' = << >>
    /\ new_fn_ids' = 0
    /\ lock' = 0
    /\ evaluated' = << >>
    /\ root_result' = Pending
    /\ apanic' = "none"
    /\ extracted' = NotExtracted
    /\ UNCHANGED <<gvars, prog, debug_assertions, applied, builder, symb>>

NextTwoRuns ==
    \/ NextAnnot
    \/ Rerun

SpecTwoRuns == InitAnnot /\ [][NextTwoRuns]_vars

(***************************************************************************)
(* The specifications.                                                     *)
(***************************************************************************)
\* the executor driven with freely behaving workers
InitGraph == behav = "free" /\ InitSystem /\ InitEngineIdle

\* the executor driven with the deep chain of workers
InitDeep == behav = "chain" /\ InitSystem /\ InitEngineIdle

NextGraph ==
    \/ RootSpawn
    \/ WorkerSpawn
    \/ WorkReturn
    \/ WorkBogus
    \/ WorkPanic
    \/ CloneHandle
    \/ DropHandle
    \/ DropResult
    \/ try_into_results

Spec == InitGraph /\ [][NextGraph]_vars

\* lines 135-162: the frames of the recorded call stack, innermost first
load_callstack_within_panic ==
    [i \in DOMAIN global_callstack |-> global_callstack[i].frame]

SpecDeep == InitDeep /\ [][NextGraph]_vars

\* the executor with either family of workers
SpecGraphs == (InitGraph \/ InitDeep) /\ [][NextGraph]_vars

(***************************************************************************)
(* symbolic_execution/worker.rs: SymbWorker, the Worker the graph executor *)
(* runs for the symbolic execution.  A worker executes one lifted function *)
(* (parameters, instructions, end instruction) for one list of argument    *)
(* types; a call and a jump request the worker of the target through       *)
(* system.spawn.  symb.stack holds the SymbWorkers whose work is running,  *)
(* innermost first, one for each frame of callstack.  A worker is at       *)
(*   "run"    : in the loop of work, before instruction pc, or at the end  *)
(*              instruction when pc is past the last instruction,          *)
(*   "wait"   : inside system.spawn, which runs the worker of the target,  *)
(*   "resume" : system.spawn has returned results whose type is got,       *)
(*   "done"   : line 104, return_type is computed.                         *)
(* TypeBag, ReturnType::map and UniqueFnIdShared (types.rs, unique_id.rs)  *)
(* are taken to do what their uses say: a bag maps registers to types, map *)
(* applies to the type inside Value, and id_of gives one id to each        *)
(* (function, argument types), in the order of the requests.               *)
(***************************************************************************)
RegisterType_Int(i) == [t |-> "Int", i |-> i]

MakeBoolean(result, item) == [op |-> "MakeBoolean", result |-> result, item |-> item]
Negate(result, operand) == [op |-> "Negate", result |-> result, operand |-> operand]
LiftedCall(result, calling, args) ==
    [op |-> "CallStatic", result |-> result, calling |-> calling, args |-> args]

\* lifted::EndInstruction
EndJump(fn, args) == [end |-> "Jump", to |-> [fn |-> fn, args |-> args]]
EndJumpIf(condition, if_so, other) ==
    [end |-> "JumpIf", condition |-> condition, if_so |-> if_so, other |-> other]
EndReturn(reg) == [end |-> "Return", reg |-> reg]

\* lifted::Function
Function(parameters, instructions, end) ==
    [parameters |-> parameters, instructions |-> instructions, end |-> end]

(***************************************************************************)
(* Lifted programs; function 1 is the entry function.  Every call and jump *)
(* passes as many arguments as its target has parameters (the              *)
(* debug_assert_eq of line 264).                                           *)
(***************************************************************************)
\* calls with and without a result register, to values and to void, twice each
LiftedCalls ==
    <<Function(<< >>,
               <<MakeInteger(0, 1),
                 LiftedCall(Some(1), 2, <<0>>),
                 LiftedCall(None, 3, << >>),
                 LiftedCall(None, 3, << >>),
                 LiftedCall(None, 2, <<0>>),
                 LiftedCall(Some(2), 2, <<1>>)>>,
               EndReturn(Some(2))),
      Function(<<0>>, << >>, EndReturn(Some(0))),
      Function(<< >>, << >>, EndReturn(None))>>

\* a conditional jump on a known boolean, and jumps that pass the type on
LiftedBranch ==
    <<Function(<< >>,
               <<MakeBoolean(0, TRUE), Negate(1, 0)>>,
               EndJumpIf(1, [fn |-> 2, args |-> <<0>>], [fn |-> 3, args |-> <<1>>])),
      Function(<<0>>, << >>, EndReturn(None)),
      Function(<<0>>, <<Negate(1, 0)>>, EndJump(4, <<1, 0>>)),
      Function(<<0, 1>>, <<LiftedCall(None, 2, <<1>>)>>, EndReturn(Some(0)))>>

\* the other side of the conditional jump
LiftedBranchTrue ==
    <<Function(<< >>,
               <<MakeBoolean(0, FALSE), Negate(1, 0)>>,
               EndJumpIf(1, [fn |-> 2, args |-> <<0>>], [fn |-> 3, args |-> <<1>>])),
      Function(<<0>>, << >>, EndReturn(None)),
      Function(<<0>>, << >>, EndReturn(Some(0)))>>

\* a function that jumps to itself with the same types
LiftedLoop ==
    <<Function(<< >>, << >>, EndJump(1, << >>))>>

\* two functions that call one another
LiftedRec ==
    <<Function(<< >>, <<LiftedCall(None, 2, << >>)>>, EndReturn(None)),
      Function(<< >>, <<LiftedCall(None, 1, << >>)>>, EndReturn(None))>>

\* the result of a void function assigned to a register
LiftedVoidToReg ==
    <<Function(<< >>, <<LiftedCall(Some(0), 2, << >>)>>, EndReturn(None)),
      Function(<< >>, << >>, EndReturn(None))>>

\* a conditional jump on an integer
LiftedJumpInt ==
    <<Function(<< >>, <<MakeInteger(0, 0), LiftedCall(None, 2, <<0>>)>>,
               EndJumpIf(0, [fn |-> 2, args |-> <<0>>], [fn |-> 2, args |-> <<0>>])),
      Function(<<0>>, << >>, EndReturn(None))>>

\* an integer negated
LiftedNegInt ==
    <<Function(<< >>, <<MakeInteger(0, 0), LiftedCall(None, 2, <<0>>)>>, EndReturn(None)),
      Function(<<0>>, <<Negate(1, 0)>>, EndReturn(None))>>

\* the same function requested with two lists of argument types
LiftedTwoTypes ==
    <<Function(<< >>,
               <<MakeInteger(0, 0), MakeBoolean(1, TRUE),
                 LiftedCall(Some(2), 2, <<0>>), LiftedCall(Some(3), 2, <<1>>),
                 LiftedCall(None, 3, <<3>>)>>,
               EndJump(2, <<2>>)),
      Function(<<0>>, << >>, EndReturn(Some(0))),
      Function(<<0>>, <<Negate(1, 0)>>, EndJump(1, << >>))>>

\* calls nested four deep that hand a value back up
LiftedChain ==
    <<Function(<< >>, <<MakeBoolean(0, TRUE), LiftedCall(Some(1), 2, <<0>>)>>,
               EndReturn(Some(1))),
      Function(<<0>>, <<Negate(1, 0), LiftedCall(Some(2), 3, <<1>>)>>, EndReturn(Some(2))),
      Function(<<0>>, <<Negate(1, 0)>>, EndJump(4, <<1>>)),
      Function(<<0>>, <<MakeInteger(1, 1)>>, EndReturn(Some(1)))>>

\* two callees that request the same worker
LiftedShared ==
    <<Function(<< >>,
               <<MakeInteger(0, 0), LiftedCall(Some(1), 2, <<0>>),
                 LiftedCall(Some(2), 3, <<0>>)>>,
               EndReturn(None)),
      Function(<<0>>, <<LiftedCall(Some(1), 4, <<0>>)>>, EndReturn(Some(1))),
      Function(<<0>>, <<LiftedCall(None, 4, <<0>>)>>, EndJump(4, <<0>>)),
      Function(<<0>>, << >>, EndReturn(Some(0)))>>

LiftedPrograms ==
    {LiftedCalls, LiftedBranch, LiftedBranchTrue, LiftedLoop, LiftedRec,
     LiftedVoidToReg, LiftedJumpInt, LiftedNegInt, LiftedTwoTypes, LiftedChain,
     LiftedShared}

EntryFunction == 1

\* SymbWorker as the factory makes it: never_infected false, nothing executed
NewSymbWorker(fn, id, types) ==
    [fn |-> fn, id |-> id, types |-> types, pc |-> 1, never_infected |-> FALSE,
     st |-> "run", got |-> Pending, return_type |-> Never]

\* struct WorkerResults, lines 47-55
WorkerResults(w, return_type) ==
    [id |-> w.id, lifted_id |-> w.fn, return_type |-> return_type, types |-> w.types]

Worker == Head(symb.stack)
WorkerFunc == symb.program[Worker.fn]
SetWorker(w) == <<w>> \o Tail(symb.stack)

\* UniqueFnIdShared::id_of: the id of (fn, argument types), a new one if it has none
HasId(ids, key) == \E i \in DOMAIN ids : ids[i] = key
id_of(ids, key) ==
    IF HasId(ids, key) THEN CHOOSE i \in DOMAIN ids : ids[i] = key ELSE Len(ids) + 1
WithId(ids, key) == IF HasId(ids, key) THEN ids ELSE Append(ids, key)

\* TypeBag::subset: the types of the arguments under the target's parameters
Subset(types, fn_args, parameters) ==
    [r \in {parameters[i] : i \in DOMAIN parameters} |->
        types[fn_args[CHOOSE i \in DOMAIN parameters : parameters[i] = r]]]

\* a panic inside work: spawn unwinds, no lock held (graph_system.rs line 308)
SymbPanic(msg) ==
    /\ panicked' = [why |-> "work", id |-> Head(callstack).frame]
    /\ op' = [name |-> "work", id |-> Head(callstack).frame,
              level |-> Head(callstack).level, out |-> "panic", ret |-> NoResult]
    /\ symb' = [symb EXCEPT !.panic = msg]
    /\ UNCHANGED <<workers, factory, callstack, global_callstack, refs, poisoned,
                   returned>>

(***************************************************************************)
(* exec_types, lines 255-287, up to the return of system.spawn: the worker *)
(* w requests the worker of (fn_id, types of fn_args).                     *)
(***************************************************************************)
exec_types(w, fn_id, fn_args) ==
    LET target_fn == symb.program[fn_id]
        key == [fn |-> fn_id, args |-> [i \in DOMAIN fn_args |-> w.types[fn_args[i]]]]
        target_id == id_of(symb.ids, key)
    IN  /\ spawn(target_id, callstack)
        /\ IF DepthExceeded(callstack) \/ IsWorking(target_id)
           THEN symb' = [symb EXCEPT !.ids = WithId(symb.ids, key)]
           ELSE IF IsCompleted(target_id)
           THEN symb' = [symb EXCEPT
                    !.ids = WithId(symb.ids, key),
                    !.stack = SetWorker([w EXCEPT
                                  !.st = "resume",
                                  !.got = workers[target_id].r.return_type])]
           ELSE symb' = [symb EXCEPT
                    !.ids = WithId(symb.ids, key),
                    !.stack = <<NewSymbWorker(fn_id, target_id,
                                    Subset(w.types, fn_args, target_fn.parameters))>>
                              \o SetWorker([w EXCEPT !.st = "wait"])]

\* the driver requests the entry function with no arguments
SymbStart ==
    /\ Running /\ callstack = << >> /\ handles > 0
    /\ symb.program # << >>
    /\ LET key == [fn |-> EntryFunction, args |-> << >>]
           id == id_of(symb.ids, key)
       IN  /\ spawn(id, << >>)
           /\ symb' = [symb EXCEPT
                  !.ids = WithId(symb.ids, key),
                  !.stack = IF IsCompleted(id) THEN << >>
                            ELSE <<NewSymbWorker(EntryFunction, id, << >>)>>]
    /\ UNCHANGED <<behav, handles, avars, extracted, applied, first_run, builder>>

(***************************************************************************)
(* exec_inst, lines 120-226, for the instructions that request no worker.  *)
(***************************************************************************)
ExecInstTypes(w, inst) ==
    IF inst.op = "MakeInteger"
    THEN Ok(MapInsert(w.types, inst.reg, RegisterType_Int(inst.value)))
    ELSE IF inst.op = "MakeBoolean"
    THEN Ok(MapInsert(w.types, inst.result, Bool(inst.item)))
    ELSE IF inst.op = "Negate"
    THEN LET o == w.types[inst.operand]
         IN  IF o = Boolean THEN Ok(MapInsert(w.types, inst.result, Boolean))
             ELSE IF o.t = "Bool" THEN Ok(MapInsert(w.types, inst.result, Bool(~o.b)))
             ELSE Panic("cannot negate")
    ELSE Panic("not yet implemented")

SymbRunning == Running /\ symb.stack # << >>
InLoop ==
    /\ Worker.st = "run" /\ ~Worker.never_infected
    /\ Worker.pc \in DOMAIN WorkerFunc.instructions
AtEnd ==
    /\ Worker.st = "run"
    /\ Worker.never_infected \/ Worker.pc \notin DOMAIN WorkerFunc.instructions

\* work, lines 66-73: one turn of the loop, the instruction is no call
SymbExecInst ==
    /\ SymbRunning /\ InLoop
    /\ WorkerFunc.instructions[Worker.pc].op # "CallStatic"
    /\ LET r == ExecInstTypes(Worker, WorkerFunc.instructions[Worker.pc])
       IN  IF IsPanic(r) THEN SymbPanic(r.msg)
           ELSE /\ symb' = [symb EXCEPT !.stack =
                       SetWorker([Worker EXCEPT !.types = r.types, !.pc = Worker.pc + 1])]
                /\ UNCHANGED <<workers, factory, callstack, global_callstack, refs,
                               poisoned, panicked, returned, op>>
    /\ UNCHANGED <<behav, handles, avars, extracted, applied, first_run, builder>>

\* exec_inst, lines 195-197: CallStatic, call_fn up to the return of exec_types
SymbCall ==
    /\ SymbRunning /\ InLoop
    /\ WorkerFunc.instructions[Worker.pc].op = "CallStatic"
    /\ LET inst == WorkerFunc.instructions[Worker.pc]
       IN  exec_types(Worker, inst.calling, inst.args)
    /\ UNCHANGED <<behav, handles, avars, extracted, applied, first_run, builder>>

\* work, lines 77-101: the end instruction
SymbEnd ==
    /\ SymbRunning /\ AtEnd
    /\ LET end == WorkerFunc.end
           Done(rt) ==
               /\ symb' = [symb EXCEPT !.stack =
                      SetWorker([Worker EXCEPT !.st = "done", !.return_type = rt])]
               /\ UNCHANGED <<workers, factory, callstack, global_callstack, refs,
                              poisoned, panicked, returned, op>>
       IN  IF Worker.never_infected THEN Done(Never)
           ELSE IF end.end = "Jump" THEN exec_types(Worker, end.to.fn, end.to.args)
           ELSE IF end.end = "JumpIf"
           THEN LET c == Worker.types[end.condition]
                IN  IF c = Bool(TRUE)
                    THEN exec_types(Worker, end.if_so.fn, end.if_so.args)
                    ELSE IF c = Bool(FALSE)
                    THEN exec_types(Worker, end.other.fn, end.other.args)
                    ELSE IF c = Boolean
                    THEN SymbPanic("not yet implemented: cannot handle divergence atm")
                    ELSE SymbPanic("not implemented: cannot use non-boolean register as conditional")
           ELSE IF end.reg = None THEN Done(Void)
           ELSE Done(Value(Worker.types[end.reg[1]]))
    /\ UNCHANGED <<behav, handles, avars, extracted, applied, first_run, builder>>

\* the worker goes on with the next instruction
Continue(w) == [k |-> "Ok", w |-> w]

\* a call that takes a void return for a callee that never returns
call_fnInfects(w, result, return_type) ==
    IF return_type = Never \/ return_type = Void
    THEN Continue([w EXCEPT !.never_infected = TRUE, !.st = "run", !.pc = w.pc + 1])
    ELSE IF result = None THEN Continue([w EXCEPT !.st = "run", !.pc = w.pc + 1])
    ELSE Continue([w EXCEPT !.types = MapInsert(w.types, result[1], return_type.v),
                            !.st = "run", !.pc = w.pc + 1])

\* call_fn, lines 238-250: the match on (result, return_type)
call_fn(w, result, return_type) ==
    IF return_type = Never
    THEN Continue([w EXCEPT !.never_infected = TRUE, !.st = "run", !.pc = w.pc + 1])
    ELSE IF result = None THEN Continue([w EXCEPT !.st = "run", !.pc = w.pc + 1])
    ELSE IF return_type.k = "Value"
    THEN Continue([w EXCEPT !.types = MapInsert(w.types, result[1], return_type.v),
                            !.st = "run", !.pc = w.pc + 1])
    ELSE Panic("incompatible return state")

\* system.spawn has returned: the rest of exec_types and of its caller
SymbResume ==
    /\ SymbRunning /\ Worker.st = "resume"
    /\ IF Worker.pc \in DOMAIN WorkerFunc.instructions
       THEN LET r == call_fn(Worker, WorkerFunc.instructions[Worker.pc].result,
                             Worker.got)
            IN  IF IsPanic(r) THEN SymbPanic(r.msg)
                ELSE /\ symb' = [symb EXCEPT !.stack = SetWorker(r.w)]
                     /\ UNCHANGED <<workers, factory, callstack, global_callstack,
                                    refs, poisoned, panicked, returned, op>>
       ELSE /\ symb' = [symb EXCEPT !.stack =
                   SetWorker([Worker EXCEPT !.st = "done", !.return_type = Worker.got])]
            /\ UNCHANGED <<workers, factory, callstack, global_callstack, refs,
                           poisoned, panicked, returned, op>>
    /\ UNCHANGED <<behav, handles, avars, extracted, applied, first_run, builder>>

\* work, lines 104-116, and the rest of spawn: the assertion, then the result
SymbReturn ==
    /\ SymbRunning /\ Worker.st = "done"
    /\ IF Worker.return_type = Never THEN SymbPanic("why is ret typ never")
       ELSE /\ SpawnComplete(Worker.id, WorkerResults(Worker, Worker.return_type))
            /\ symb' = [symb EXCEPT !.stack =
                   IF Len(symb.stack) = 1 THEN << >>
                   ELSE <<[symb.stack[2] EXCEPT !.st = "resume",
                                                !.got = Worker.return_type]>>
                        \o Tail(Tail(symb.stack))]
    /\ UNCHANGED <<behav, handles, avars, extracted, applied, first_run, builder>>

InitSymb ==
    /\ behav = "symb" /\ InitSystem
    /\ prog = MainPrint
    /\ debug_assertions = TRUE
    /\ NewEngine
    /\ tasks = << >>
    /\ \E program \in LiftedPrograms : symb = [NoSymb EXCEPT !.program = program]

NextSymb ==
    \/ SymbStart
    \/ SymbExecInst
    \/ SymbCall
    \/ SymbEnd
    \/ SymbResume
    \/ SymbReturn

SpecSymb == InitSymb /\ [][NextSymb]_vars

(***************************************************************************)
(* frontend/builder.rs: ProgramBuilder, FunctionBuilder, BlockBuilder and  *)
(* FinalizedBlockBuilder, and the Drop implementations that police them.   *)
(* The user of the builder holds the live builders (fns, blks, fins) and   *)
(* may pass each to the next method of the protocol or let it go out of    *)
(* scope.  Registers and instructions play no part in the protocol.        *)
(***************************************************************************)
\* start_function and start_block calls of one run
MaxBuilders == 4

NoEntryBlock == "expected entry block"
OneEntryBlock == "can only define one entrypointt block"
\* the panic messages of the three destructors (without their backquotes)
FunctionBuilderDropped ==
    "A FunctionBuilder (created with start_function) was dropped without end_function being called."
BlockBuilderDropped ==
    "A BlockBuilder (created with start_block) was dropped without a finalizing method (e.g. ret) being called."
FinalizedBlockBuilderDropped ==
    "A FinalizedBlockBuilder (created with a finalizing method) was dropped without end_block being called."

\* the finalizing methods of a BlockBuilder
Finalizers == {"jmp", "jmpif", "ret"}

\* the first panic of two destructors that run one after the other
FirstPanic(a, b) == IF a # "none" THEN a ELSE b

\* a FunctionBuilder that drops without complaint: never replaces the real one
FunctionBuilder_dropSilent(fb) == "none"

\* impl Drop for FunctionBuilder, lines 274-280
FunctionBuilder_drop(fb) ==
    IF ~fb.is_ok_to_drop THEN FunctionBuilderDropped ELSE "none"

\* impl Drop for BlockBuilder, lines 505-511
BlockBuilder_drop(bb) ==
    IF ~bb.is_ok_to_drop THEN BlockBuilderDropped ELSE "none"

\* impl Drop for FinalizedBlockBuilder, lines 535-541, then the drop of its field
FinalizedBlockBuilder_drop(fin) ==
    FirstPanic(IF ~fin.is_ok_to_drop THEN FinalizedBlockBuilderDropped ELSE "none",
               BlockBuilder_drop(fin.builder))

\* FunctionBuilder::new, lines 172-182
FunctionBuilder_new(id) ==
    [id |-> id, gen_block_id |-> 0, entrypoint |-> None, blocks |-> << >>,
     is_ok_to_drop |-> FALSE]

\* BlockBuilder::new, lines 312-325; of: the FunctionBuilder whose counter gave id
BlockBuilder_new(of, id) == [of |-> of, id |-> id, is_ok_to_drop |-> FALSE]

BuilderRunning == builder.panic = "none"

\* ProgramBuilder::start_function, lines 126-141
start_function ==
    /\ BuilderRunning /\ builder.started < MaxBuilders
    /\ builder' = [builder EXCEPT
                     !.gen_function_id = @ + 1,
                     !.fns = @ \cup {FunctionBuilder_new(builder.gen_function_id)},
                     !.started = @ + 1,
                     !.op = [name |-> "start_function", id |-> builder.gen_function_id]]
    /\ UNCHANGED <<gvars, avars, extracted, applied, first_run, symb>>

\* FunctionBuilder::start_block, lines 235-250, and start_block_main, 223-233
start_block(main) ==
    /\ BuilderRunning /\ builder.started < MaxBuilders
    /\ \E fb \in builder.fns :
          IF main /\ fb.entrypoint # None
          THEN builder' = [builder EXCEPT
                             !.panic = OneEntryBlock,
                             !.op = [name |-> "start_block_main", id |-> fb.id]]
          ELSE LET id == fb.gen_block_id
                   fb2 == [fb EXCEPT !.gen_block_id = @ + 1,
                                     !.entrypoint = IF main THEN Some(id) ELSE @]
               IN  builder' = [builder EXCEPT
                                 !.fns = (@ \ {fb}) \cup {fb2},
                                 !.blks = @ \cup {BlockBuilder_new(fb.id, id)},
                                 !.started = @ + 1,
                                 !.op = [name |-> "start_block", id |-> fb.id]]
    /\ UNCHANGED <<gvars, avars, extracted, applied, first_run, symb>>

\* BlockBuilder::jmp_dynargs, ret, jmpif_dynargs, lines 439-498
finalize ==
    /\ BuilderRunning
    /\ \E bb \in builder.blks, end \in Finalizers :
          builder' = [builder EXCEPT
                        !.blks = @ \ {bb},
                        !.fins = @ \cup {[builder |-> [bb EXCEPT !.is_ok_to_drop = TRUE],
                                          end_control_flow |-> end,
                                          is_ok_to_drop |-> FALSE]},
                        !.op = [name |-> end, of |-> bb.of, id |-> bb.id]]
    /\ UNCHANGED <<gvars, avars, extracted, applied, first_run, symb>>

\* FunctionBuilder::end_block, lines 252-265, with FinalizedBlockBuilder::finish,
\* lines 520-532, at whose end the finalized builder is dropped
end_block ==
    /\ BuilderRunning
    /\ \E fb \in builder.fns, fin \in builder.fins :
          LET done == [fin EXCEPT !.is_ok_to_drop = TRUE]
              fb2 == [fb EXCEPT !.blocks = MapInsert(@, fin.builder.id,
                                                      fin.end_control_flow)]
          IN  builder' = [builder EXCEPT
                            !.fns = (@ \ {fb}) \cup {fb2},
                            !.fins = @ \ {fin},
                            !.panic = FinalizedBlockBuilder_drop(done),
                            !.op = [name |-> "end_block", id |-> fb.id,
                                    of |-> fin.builder.of, block |-> fin.builder.id]]
    /\ UNCHANGED <<gvars, avars, extracted, applied, first_run, symb>>

\* ProgramBuilder::end_function, lines 143-156, with FunctionBuilder::finish,
\* lines 184-198, at whose end (or unwinding from its expect) the builder is dropped
end_function ==
    /\ BuilderRunning
    /\ \E fb \in builder.fns :
          LET done == [fb EXCEPT !.is_ok_to_drop = TRUE]
          IN  IF fb.entrypoint = None
              THEN builder' = [builder EXCEPT
                                 !.fns = @ \ {fb},
                                 !.panic = NoEntryBlock,
                                 !.op = [name |-> "end_function", id |-> fb.id]]
              ELSE builder' = [builder EXCEPT
                                 !.fns = @ \ {fb},
                                 !.functions =
                                     MapInsert(@, fb.id,
                                               [entry_block |-> fb.entrypoint[1],
                                                blocks |-> fb.blocks]),
                                 !.panic = FunctionBuilder_drop(done),
                                 !.op = [name |-> "end_function", id |-> fb.id]]
    /\ UNCHANGED <<gvars, avars, extracted, applied, first_run, symb>>

\* a FunctionBuilder the user still holds goes out of scope
DropFunctionBuilder ==
    /\ BuilderRunning
    /\ \E fb \in builder.fns :
          builder' = [builder EXCEPT
                        !.fns = @ \ {fb},
                        !.panic = FunctionBuilder_drop(fb),
                        !.op = [name |-> "drop FunctionBuilder", id |-> fb.id]]
    /\ UNCHANGED <<gvars, avars, extracted, applied, first_run, symb>>

\* a BlockBuilder the user still holds goes out of scope
DropBlockBuilder ==
    /\ BuilderRunning
    /\ \E bb \in builder.blks :
          builder' = [builder EXCEPT
                        !.blks = @ \ {bb},
                        !.panic = BlockBuilder_drop(bb),
                        !.op = [name |-> "drop BlockBuilder", of |-> bb.of, id |-> bb.id]]
    /\ UNCHANGED <<gvars, avars, extracted, applied, first_run, symb>>

\* a FinalizedBlockBuilder the user still holds goes out of scope
DropFinalizedBlockBuilder ==
    /\ BuilderRunning
    /\ \E fin \in builder.fins :
          builder' = [builder EXCEPT
                        !.fins = @ \ {fin},
                        !.panic = FinalizedBlockBuilder_drop(fin),
                        !.op = [name |-> "drop FinalizedBlockBuilder",
                                of |-> fin.builder.of, id |-> fin.builder.id]]
    /\ UNCHANGED <<gvars, avars, extracted, applied, first_run, symb>>

NextBuilder ==
    \/ start_function
    \/ start_block(TRUE)
    \/ start_block(FALSE)
    \/ finalize
    \/ end_block
    \/ end_function
    \/ DropFunctionBuilder
    \/ DropBlockBuilder
    \/ DropFinalizedBlockBuilder

SpecBuilder == InitGraph /\ [][NextBuilder]_vars

(***************************************************************************)
(* Properties of the graph executor.                                       *)
(***************************************************************************)
Range(s) == {s[i] : i \in DOMAIN s}

\* the step is a request spawn(id) (not the return of a worker that ran)
SpawnRequested(id) == op'.name = "spawn" /\ op'.id = id /\ op'.out # "computed"

\* C1: over any nested or sequential spawn requests a worker is made and run
\* at most once per id, and every spawn(id) returns the same result.
C1_WorkerOncePerId ==
    /\ \A id \in Range(factory) : Count(factory, id) = 1
    /\ \A i, j \in DOMAIN callstack : callstack[i].frame = callstack[j].frame => i = j
    /\ \A id \in DOMAIN returned : Cardinality(returned[id]) = 1
    /\ \A id \in DOMAIN returned : IsCompleted(id) /\ returned[id] = {workers[id].r}

\* a later spawn(id), made by a running worker, got the cached result
C1_Witness ==
    /\ op.name = "spawn" /\ op.out = "cached" /\ op.level > 0
    /\ returned[op.id] = {op.ret}
    /\ Count(factory, op.id) = 1

\* C2 as stated: spawn(id) for a Completed id, from the root handle or from
\* a worker at any nesting level, returns the cached result and changes
\* neither the worker table, the factory nor the recorded call stack.
C2_Original ==
    [][\A id \in DOMAIN workers :
          (workers[id].st = "Completed" /\ SpawnRequested(id))
          => /\ op'.out = "cached" /\ op'.ret = workers[id].r
             /\ workers' = workers /\ factory' = factory
             /\ global_callstack' = global_callstack]_vars

\* C2 amended: the same, for a request from the root handle or from a worker
\* running at a nesting level below 1000.
C2_CachedSpawnIsFree ==
    [][\A id \in DOMAIN workers :
          (workers[id].st = "Completed" /\ SpawnRequested(id)
             /\ CallerLevel(callstack) < DepthLimit)
          => /\ op'.out = "cached" /\ op'.ret = workers[id].r
             /\ workers' = workers /\ factory' = factory
             /\ global_callstack' = global_callstack
             /\ callstack' = callstack /\ panicked' = panicked]_vars

\* a worker deep in the chain was answered from the cache
C2_Witness ==
    /\ op.name = "spawn" /\ op.out = "cached" /\ op.level = DepthLimit - 1
    /\ IsCompleted(op.id) /\ op.ret = workers[op.id].r

\* C3: spawn(id) for a Working id aborts the pass: no second worker is made
\* for id, nothing is returned to the requester, and id never becomes
\* Completed afterwards.
C3_CycleAborts ==
    /\ [][\A id \in DOMAIN workers :
            (workers[id].st = "Working" /\ SpawnRequested(id))
            => /\ panicked'.why # "none" /\ panicked'.id = id
               /\ op'.out = "panic" /\ op'.ret = NoResult
               /\ factory' = factory /\ workers' = workers
               /\ returned' = returned]_vars
    /\ [](panicked.why = "cycle" => IsWorking(panicked.id)
                                     /\ Count(factory, panicked.id) = 1)

\* a worker requested an id that an enclosing spawn is computing
C3_Witness ==
    /\ panicked.why = "cycle" /\ Len(callstack) >= 2
    /\ panicked.id = callstack[Len(callstack)].frame
    /\ op.name = "spawn" /\ op.out = "panic"

\* C4: the depth guard aborts exactly when a worker running at level 1000
\* issues a spawn: no worker runs above level 1000, and spawns nested at
\* most 1000 deep are never aborted by the guard.
C4_DepthGuard ==
    /\ [](\A i \in DOMAIN callstack :
             /\ callstack[i].level = Len(callstack) - i + 1
             /\ callstack[i].level <= DepthLimit)
    /\ [](panicked.why = "depth" => Len(callstack) = DepthLimit)
    /\ [][\A id \in Ids :
            SpawnRequested(id)
            => (panicked'.why = "depth" <=> CallerLevel(callstack) = DepthLimit)]_vars

\* the worker at level 1000 issued a spawn and the guard aborted the pass
C4_Witness ==
    /\ panicked.why = "depth" /\ Len(callstack) = DepthLimit
    /\ Head(callstack).level = DepthLimit
    /\ op.name = "spawn" /\ op.level = DepthLimit

\* C5: after the root computation has returned, try_into_results gives a map
\* with exactly one entry per id ever spawned (its result) when the caller
\* holds the only handle and no result is referenced elsewhere; with another
\* handle alive it fails with ReferencesToSystem, with a result referenced
\* elsewhere it fails with ReferencesToWorkerResults.
C5_TryIntoResults ==
    [][(op'.name = "try_into_results" /\ Running /\ callstack = << >>)
       => LET held == \E id \in DOMAIN refs : refs[id] > 0
          IN  /\ handles > 1 => op'.out = "ReferencesToSystem"
              /\ (handles = 1 /\ held) => op'.out = "ReferencesToWorkerResults"
              /\ op'.out # "Ok" => op'.ret = NoResult
              /\ (handles = 1 /\ ~held)
                    => /\ op'.out = "Ok"
                       /\ DOMAIN op'.ret = Range(factory)
                       /\ \A id \in Range(factory) : returned[id] = {op'.ret[id]}]_vars

\* the only handle drained a table of several finished workers
C5_Witness ==
    /\ op.name = "try_into_results" /\ op.out = "Ok"
    /\ Cardinality(DOMAIN op.ret) >= 2
    /\ DOMAIN op.ret = Range(factory)
    /\ panicked.why = "none"

(***************************************************************************)
(* Properties of the type annotater.                                       *)
(***************************************************************************)
\* the pass has come to its end: the root explore_fn returned, or a panic
Stopped == tasks = << >> \/ apanic # "none"

\* "None", "InProgress" or "Finished": what a lookup of the key finds
StatusOf(key) ==
    LET e == Executions_get(executions, key)
    IN  IF e.k = "None" THEN "None" ELSE e.e.s

\* explore_fn is about to look its key up, and the key has the status s
Requesting(s) ==
    /\ ARunning /\ tasks # << >> /\ Top.st = "start" /\ lock = 0
    /\ StatusOf(Top.block) = s

\* in this step the innermost task ends and hands ret to whoever awaits it
Returns(ret) ==
    /\ Len(tasks') = Len(tasks) - 1
    /\ tasks' # << >> => Head(tasks').st = "resume" /\ Head(tasks').got = ret
    /\ tasks' = << >> => root_result' = ret

\* the key of the static call the innermost task is at
CalleeKey ==
    BlockExecutionKey(entrypoints(CurInst.func.id), MapArgs(Top.types, CurInst.args))

\* the innermost task has its callee's answer, and the callee evaluated nothing:
\* the last evaluation is the call itself
CalleeAnsweredAtOnce ==
    /\ ARunning /\ tasks # << >> /\ Top.st = "resume"
    /\ evaluated # << >> /\ evaluated[Len(evaluated)] = Evaluation

Entries == all_fn_invocations(executions)

\* C6: a request (explore_fn) for a key whose status is InProgress returns Never
\* at once: no block is evaluated for it, no function id is minted, and the
\* memo (executions) and the typed-function table stay as they are.
C6_InProgressReturnsNever ==
    [][Requesting("InProgress") =>
          /\ Returns(Never)
          /\ evaluated' = evaluated
          /\ new_fn_ids' = new_fn_ids
          /\ executions' = executions
          /\ typed_blocks' = typed_blocks
          /\ apanic' = apanic]_vars

C6_Witness ==
    /\ CalleeAnsweredAtOnce
    /\ Top.got = Never
    /\ StatusOf(CalleeKey) = "InProgress"

\* C7: exploring a function whose only body is a static call of itself with the
\* same arguments, followed by returning the call's result, finishes with the
\* return type Never and exactly one memo entry for its key.
C7_SelfRecursionResolvesToNever ==
    (prog = SelfRec /\ Stopped) =>
        /\ apanic = "none"
        /\ root_result = Never
        /\ Cardinality(Entries) = 1
        /\ \A e \in Entries :
               /\ e.exec.s = "Finished"
               /\ e.exec.key \in DOMAIN typed_blocks
               /\ typed_blocks[e.exec.key].return_type = Never

\* what holds of the memo and the typed-function table in every state
C8_Tables ==
    /\ Cardinality(Entries) = new_fn_ids
    /\ \A e1, e2 \in Entries : e1.exec.key = e2.exec.key => e1 = e2
    /\ \A e \in Entries : e.exec.s = "Finished" => e.exec.key \in DOMAIN typed_blocks

\* what holds of every step
C8_Step ==
    /\ Requesting("None") =>
          /\ new_fn_ids' = new_fn_ids + 1
          /\ Executions_get(executions', Top.block)
                 = [k |-> "Some", e |-> InProgress(BlockKey(new_fn_ids'))]
    /\ ~Requesting("None") =>
          /\ new_fn_ids' = new_fn_ids
          /\ {[id |-> e.id, parameters |-> e.parameters] :
                 e \in all_fn_invocations(executions')}
               = {[id |-> e.id, parameters |-> e.parameters] : e \in Entries}
    /\ \A e \in Entries : \E e2 \in all_fn_invocations(executions') :
          /\ e2.id = e.id /\ e2.parameters = e.parameters
          /\ e2.exec.key = e.exec.key
          /\ e.exec.s = "Finished" => e2.exec.s = "Finished"
    /\ Requesting("Finished") =>
          /\ Executions_get(executions, Top.block).e.key \in DOMAIN typed_blocks
          /\ Returns(typed_blocks[Executions_get(executions, Top.block).e.key].return_type)
          /\ evaluated' = evaluated
          /\ new_fn_ids' = new_fn_ids
          /\ executions' = executions
          /\ typed_blocks' = typed_blocks
          /\ apanic' = apanic

\* C8: for each key the InProgress marker is inserted, and a function id
\* minted, at most once in the pass: by the first request, in the step of its
\* lookup.  Every later request finds InProgress or Finished, and a request that
\* finds Finished returns the return type of the key's typed function, which
\* exists, without evaluating a block or changing a table.
C8_FirstRequestWins == [](C8_Tables) /\ [][C8_Step]_vars

C8_Witness ==
    /\ CalleeAnsweredAtOnce
    /\ StatusOf(CalleeKey) = "Finished"
    /\ Top.got = typed_blocks[Executions_get(executions, CalleeKey).e.key].return_type
    /\ new_fn_ids > 1

\* the keys a program can give rise to: a block with each shape of parameters
KeyBound == Len(prog.blocks) * (Pow2(IntBits) + 1)

\* C9: for every IR program, recursive, mutually recursive or jumping in loops,
\* the exploration from the entry key stops: the root explore_fn returns or the
\* pass aborts; and the keys created stay within the finitely many there are.
C9_ExplorationStops ==
    /\ <>Stopped
    /\ [](Cardinality(Entries) <= KeyBound)

\* a loop that ran through every integer and ended by returning to annotate
C9_Witness ==
    /\ prog = CountLoop /\ ~debug_assertions
    /\ tasks = << >> /\ apanic = "none"
    /\ Len(evaluated) > Pow2(IntBits)

\* C10: when a static call in a block returns Never the pass goes on, with the
\* rest of the block unreachable: no later instruction and no terminator of the
\* block is evaluated, it adds no successor key and no return type, and the
\* evaluation of the block completes.
C10_NeverMakesRestUnreachable ==
    [][(ARunning /\ tasks # << >> /\ Top.st = "resume" /\ Top.got = Never) =>
          /\ apanic' = "none"
          /\ evaluated' = evaluated
          /\ Len(tasks') = Len(tasks)
          /\ Head(tasks').st = "loop"
          /\ Head(tasks').block_stack = Top.block_stack
          /\ Head(tasks').return_type = Top.return_type
          /\ has_evaled_block(Head(tasks').eval_blocks, Top.cur)]_vars

\* the key a jump produces, given the register types at the end of its block
JumpKey(jmp, types) ==
    [id |-> jmp.block, parameters |-> [i \in DOMAIN jmp.args |-> types[jmp.args[i]]]]

\* the innermost task is at a conditional jump whose condition has a type
AtJmpIf ==
    /\ ARunning /\ tasks # << >> /\ AtTerminator
    /\ CurBlock.end.end = "JmpIf"
    /\ CurBlock.end.condition \in DOMAIN Top.types
TheCond == Top.types[CurBlock.end.condition]

\* the step enqueues the keys of these paths, in their order, and nothing else;
\* it aborts when a register a path forwards has no type
Enqueues(paths) ==
    IF \A i \in DOMAIN paths : \A a \in DOMAIN paths[i].args :
           paths[i].args[a] \in DOMAIN Top.types
    THEN /\ apanic' = "none"
         /\ Len(tasks') = Len(tasks)
         /\ Head(tasks').block_stack
              = Top.block_stack \o [i \in DOMAIN paths |-> JumpKey(paths[i], Top.types)]
    ELSE apanic' # "none"

\* the lists of evaluated blocks of the calls running and of the calls finished
VisitedLists ==
    {tasks[i].eval_blocks : i \in DOMAIN tasks}
    \cup {typed_blocks[k].eval_blocks : k \in DOMAIN typed_blocks}

\* the n-th evaluated block of the list ended in a conditional jump on Bool(b)
JumpedOnBool(L, n, b) ==
    /\ get_block(L[n].block).end.end = "JmpIf"
    /\ L[n].types[get_block(L[n].block).end.condition] = Bool(b)

TakenPath(end, b) == IF b THEN end.true_path ELSE end.false_path

\* what C11 says of a single conditional jump on Bool(true) or Bool(false)
C11_OneSuccessor ==
    /\ [][\A b \in BOOLEAN :
            (AtJmpIf /\ TheCond = Bool(b)) => Enqueues(<<TakenPath(CurBlock.end, b)>>)]_vars
    /\ [](\A L \in VisitedLists : \A n \in DOMAIN L : \A b \in BOOLEAN :
            JumpedOnBool(L, n, b) =>
                L[n].control_flow
                  = [k |-> "Branch",
                     next |-> <<JumpKey(TakenPath(get_block(L[n].block).end, b),
                                        L[n].types)>>])

\* C11 as it stands: a conditional jump on Bool(true) produces the true
\* branch's key only (on Bool(false) the false branch's), and the block of the
\* other branch is never visited under that call.
C11_Original ==
    \A L \in VisitedLists : \A n \in DOMAIN L : \A b \in BOOLEAN :
        JumpedOnBool(L, n, b) =>
            /\ L[n].control_flow
                 = [k |-> "Branch",
                    next |-> <<JumpKey(TakenPath(get_block(L[n].block).end, b),
                                       L[n].types)>>]
            /\ \A m \in DOMAIN L :
                   L[m].block # TakenPath(get_block(L[n].block).end, ~b).block

\* C11: a conditional jump on Bool(true) produces exactly one successor key, the
\* true branch's (on Bool(false) the false branch's); the other branch's key is
\* not produced by that jump, and under that call every block visited after the
\* first is visited with a key that an evaluated jump of the call produced.
C11_DeadBranchNotProduced ==
    /\ C11_OneSuccessor
    /\ [](\A L \in VisitedLists : \A n \in DOMAIN L :
            n > 1 => \E m \in 1 .. (n - 1) :
                        /\ L[m].control_flow.k = "Branch"
                        /\ \E i \in DOMAIN L[m].control_flow.next :
                               L[m].control_flow.next[i]
                                 = [id |-> L[n].block, parameters |-> L[n].params])

\* a finished call that jumped on Bool(true) and never visited the other block
C11_Witness ==
    \E k \in DOMAIN typed_blocks :
        LET L == typed_blocks[k].eval_blocks
        IN  \E n \in DOMAIN L :
                /\ JumpedOnBool(L, n, TRUE)
                /\ Len(L[n].control_flow.next) = 1
                /\ \A m \in DOMAIN L :
                       L[m].block # get_block(L[n].block).end.false_path.block

\* C12: a conditional jump on abstract Boolean produces both successor keys,
\* the true branch's first, each made of the target block and the types of the
\* registers forwarded to it; a condition of any other type than Bool(true),
\* Bool(false) or Boolean aborts the pass.
C12_BooleanTakesBoth ==
    [][/\ (AtJmpIf /\ TheCond = Boolean) =>
              Enqueues(<<CurBlock.end.true_path, CurBlock.end.false_path>>)
       /\ (AtJmpIf /\ TheCond.t \notin {"Bool", "Boolean"}) => apanic' # "none"]_vars

\* a call that jumped on Boolean and has two successor keys from it, and a pass
\* that a condition of another type has aborted
C12_Witness ==
    \E L \in VisitedLists : \E n \in DOMAIN L :
        /\ get_block(L[n].block).end.end = "JmpIf"
        /\ L[n].types[get_block(L[n].block).end.condition] = Boolean
        /\ Len(L[n].control_flow.next) = 2
        /\ L[n].control_flow.next[1].id = get_block(L[n].block).end.true_path.block
        /\ L[n].control_flow.next[2].id = get_block(L[n].block).end.false_path.block

Unified == applied.fn = "unify"

\* C13: Never is the identity of unify: for every return type X, unifying
\* Never with X gives X and unifying X with Never gives X.
C13_NeverIsIdentity ==
    Unified =>
        /\ applied.self = Never => applied.out = applied.other
        /\ applied.other = Never => applied.out = applied.self

\* Never has been unified with a Value and a Void with Never
C13_Witness ==
    /\ Unified
    /\ \/ applied.self = Never /\ applied.other.k = "Value" /\ applied.out = applied.other
       \/ applied.other = Never /\ applied.self.k = "Void" /\ applied.out = applied.self

C15_MismatchAborts ==
    (/\ Unified
     /\ applied.self # applied.other
     /\ applied.self.k \in {"Value", "Void"}
     /\ applied.other.k \in {"Value", "Void"})
        => /\ IsPanic(applied.out)
           /\ applied.out \notin {applied.self, applied.other}

\* Void has been unified with a Value, and two different Values
C15_Witness ==
    /\ Unified /\ IsPanic(applied.out)
    /\ \/ applied.self = Void /\ applied.other.k = "Value"
       \/ applied.self.k = "Value" /\ applied.other.k = "Value"
             /\ applied.self # applied.other

\* the innermost task is at a call of a declared external function whose
\* argument registers all have a type
AtExternalCall ==
    /\ ARunning /\ tasks # << >> /\ AtInstruction
    /\ CurInst.op = "Call" /\ CurInst.func.callable = "External"
    /\ CurInst.func.id \in DOMAIN prog.ext_fns
    /\ \A i \in DOMAIN CurInst.args : CurInst.args[i] \in DOMAIN Top.types
TheExtFn == prog.ext_fns[CurInst.func.id]

\* the foreign type widened into the lattice: the same kind and width
Widened(ffi) == IF ffi.f = "Pointer" THEN [t |-> "Pointer", w |-> ffi.w] ELSE [t |-> ffi.f]

\* some argument does not coerce to the parameter declared at its position
SomeArgDoesNotCoerce ==
    \E i \in DOMAIN CurInst.args \cap DOMAIN TheExtFn.parameters :
        ~can_coerce(Top.types[CurInst.args[i]], TheExtFn.parameters[i])

\* C16: a call of an external function aborts the pass if an argument does not
\* coerce to the foreign parameter type at its position, or if it has a result
\* register and the target returns Void; a call that goes through changes the
\* register types only by giving the result register, when there is one, the
\* widened foreign return type.
C16_ExternalCall ==
    [][AtExternalCall =>
          /\ (SomeArgDoesNotCoerce
              \/ (CurInst.result # None /\ TheExtFn.return_type = FFIVoid))
                 => apanic' # "none"
          /\ apanic' = "none" =>
                /\ Len(tasks') = Len(tasks)
                /\ Head(tasks').types
                     = IF CurInst.result = None THEN Top.types
                       ELSE [r \in DOMAIN Top.types \cup {CurInst.result[1]} |->
                                IF r = CurInst.result[1]
                                THEN Widened(TheExtFn.return_type.v)
                                ELSE Top.types[r]]]_vars

\* a task has gone through an external call with a result register
C16_Witness ==
    /\ ARunning /\ tasks # << >> /\ Top.st = "block" /\ Top.pc > 1
    /\ LET inst == CurBlock.instructions[Top.pc - 1]
       IN  /\ inst.op = "Call" /\ inst.func.callable = "External"
           /\ inst.result # None
           /\ inst.result[1] \in DOMAIN Top.types
           /\ Top.types[inst.result[1]] = Pointer(16)
           /\ \A i \in DOMAIN CurBlock.parameters : CurBlock.parameters[i] # inst.result[1]

\* the pairs (value type, foreign type) that coerce, pointers apart
CoercionTable ==
    {<<"Any", "Any">>, <<"String", "Any">>, <<"ExactString", "Any">>,
     <<"Number", "Any">>, <<"ExactInteger", "Any">>, <<"Boolean", "Any">>,
     <<"Bool", "Any">>, <<"Runtime", "Runtime">>, <<"Word", "Word">>,
     <<"String", "String">>, <<"ExactString", "String">>}

\* C17: can_coerce is true exactly for: foreign Any from Any, String,
\* ExactString, Number, ExactInteger, Boolean or Bool; Runtime from Runtime;
\* Word from Word; String from String or ExactString; Pointer(w1) from
\* Pointer(w2) with w1 = w2; and false for every other pair.
C17_CoercionTable ==
    applied.fn = "can_coerce" =>
        LET v == applied.value_type
            ffi == applied.ffi
        IN  /\ applied.out \in BOOLEAN
            /\ applied.out <=>
                  \/ <<v.t, ffi.f>> \in CoercionTable
                  \/ v.t = "Pointer" /\ ffi.f = "Pointer" /\ v.w = ffi.w
            /\ (v = ExactInteger(1) /\ ffi = FFIPointer(16)) => ~applied.out
            /\ (v = Pointer(8) /\ ffi = FFIPointer(16)) => ~applied.out
            /\ (v \in {Runtime, Word} /\ ffi = FFIAny) => ~applied.out

\* can_coerce has answered for a pointer of the declared width
C17_Witness ==
    /\ applied.fn = "can_coerce"
    /\ applied.value_type = Pointer(16) /\ applied.ffi = FFIPointer(16)
    /\ applied.out = TRUE

\* the innermost task is at an instruction of two typed operands
AtBinary(kind) ==
    /\ ARunning /\ tasks # << >> /\ AtInstruction /\ CurInst.op = kind
    /\ CurInst.lhs \in DOMAIN Top.types /\ CurInst.rhs \in DOMAIN Top.types
Lhs == Top.types[CurInst.lhs]
Rhs == Top.types[CurInst.rhs]

\* the step gives the destination register the type v and moves on
Assigns(v) ==
    /\ apanic' = "none"
    /\ Len(tasks') = Len(tasks)
    /\ Head(tasks').pc = Top.pc + 1
    /\ CurInst.reg \in DOMAIN Head(tasks').types
    /\ Head(tasks').types[CurInst.reg] = v

\* the step aborts the pass and no task has moved
Aborts(msg) == apanic' = msg /\ tasks' = tasks

\* C18: Add gives Number for Number with Number and for Number with an exact
\* integer in either order, ExactInteger(x+y) for the exact integers x and y
\* (whose sum is a signed integer of the width), String for String with String;
\* String with Number or with an exact integer, in either order, fails with the
\* incompatible-types error and the destination register gets no type.
C18_AddTable ==
    [][AtBinary("Add") =>
          /\ ({Lhs.t, Rhs.t} \in {{"Number"}, {"Number", "ExactInteger"}})
                => Assigns(Number)
          /\ (Lhs.t = "ExactInteger" /\ Rhs.t = "ExactInteger" /\ InRange(Lhs.n + Rhs.n))
                => Assigns(ExactInteger(Lhs.n + Rhs.n))
          /\ (Lhs.t = "String" /\ Rhs.t = "String") => Assigns(String)
          /\ ({Lhs.t, Rhs.t} \in {{"String", "Number"}, {"String", "ExactInteger"}})
                => Aborts("should be able to add: IncompatibleTypes")]_vars

\* an Add of two exact integers has given their sum
C18_Witness ==
    /\ ARunning /\ tasks # << >> /\ Top.st = "block" /\ Top.pc > 1
    /\ LET inst == CurBlock.instructions[Top.pc - 1]
       IN  /\ inst.op = "Add"
           /\ inst.lhs # inst.reg /\ inst.rhs # inst.reg
           /\ Top.types[inst.lhs].t = "ExactInteger"
           /\ Top.types[inst.rhs].t = "ExactInteger"
           /\ Top.types[inst.reg]
                = ExactInteger(Top.types[inst.lhs].n + Top.types[inst.rhs].n)

\* C19: CompareLessThan gives the destination register Boolean when either
\* operand is Number, and Bool(x < y) when the operands are the exact integers
\* x and y.
C19_LessThanTable ==
    [][AtBinary("CompareLessThan") =>
          /\ ({Lhs.t, Rhs.t} \in {{"Number"}, {"Number", "ExactInteger"}})
                => Assigns(Boolean)
          /\ (Lhs.t = "ExactInteger" /\ Rhs.t = "ExactInteger")
                => Assigns(Bool(Lhs.n < Rhs.n))]_vars

\* a comparison of two equal exact integers has given Bool(false)
C19_Witness ==
    /\ ARunning /\ tasks # << >> /\ Top.st = "block" /\ Top.pc > 1
    /\ LET inst == CurBlock.instructions[Top.pc - 1]
       IN  /\ inst.op = "CompareLessThan"
           /\ inst.lhs # inst.reg /\ inst.rhs # inst.reg
           /\ Top.types[inst.lhs].t = "ExactInteger"
           /\ Top.types[inst.rhs] = Top.types[inst.lhs]
           /\ Top.types[inst.reg] = Bool(FALSE)

\* the exploration of MainPrint has been extracted
MainPrintExtracted == prog = MainPrint /\ extracted # NotExtracted

\* what every specialized block of MainPrint holds: r0 Runtime, r1 the exact
\* string, return type Void; and main's block was left by a return
MainPrintBlocks ==
    /\ \A i \in DOMAIN extracted.invocations :
           /\ extracted.invocations[i].args = << >>
           /\ extracted.invocations[i].registers
                = [r \in {0, 1} |-> IF r = 0 THEN Runtime ELSE ExactString(0)]
    /\ \A id \in DOMAIN extracted.return_types : extracted.return_types[id] = Void
    /\ \A id \in DOMAIN extracted.id_map : extracted.id_map[id].block = 1
    /\ \A k \in DOMAIN typed_blocks :
           /\ Len(typed_blocks[k].eval_blocks) = 1
           /\ typed_blocks[k].eval_blocks[1].control_flow = [k |-> "Complete", ret |-> Void]

\* C20: exploring main's entry key of the print program with no arguments and
\* extracting yields exactly one specialized block, with r0 Runtime, r1
\* ExactString(const0), return type Void and no successor key.
C20_MainPrintOneBlock ==
    MainPrintExtracted =>
        /\ Len(extracted.invocations) = 1
        /\ Cardinality(DOMAIN extracted.id_map) = 1
        /\ Cardinality(DOMAIN extracted.return_types) = 1
        /\ MainPrintBlocks

\* the engine that annotate returned has been extracted
Extracted == extracted # NotExtracted

\* the (block, argument types) keys that the finished calls visited
VisitedKeys ==
    UNION {{BlockExecutionKey(typed_blocks[k].eval_blocks[n].block,
                              typed_blocks[k].eval_blocks[n].params) :
               n \in DOMAIN typed_blocks[k].eval_blocks} : k \in DOMAIN typed_blocks}

\* C21: extraction mints exactly one specialized-block id for each distinct
\* (block, argument types) key visited: the id-to-block table and the
\* id-to-return-type table have as many entries as there are visited keys.
C21_OneIdPerVisitedKey ==
    Extracted =>
        /\ Cardinality(DOMAIN extracted.id_map) = Cardinality(VisitedKeys)
        /\ Cardinality(DOMAIN extracted.return_types) = Cardinality(VisitedKeys)

\* the visits of the key by finished calls: the call and the place in its list
VisitsOf(key) ==
    {<<k, n>> \in UNION {{<<c, m>> : m \in DOMAIN typed_blocks[c].eval_blocks} :
                            c \in DOMAIN typed_blocks} :
        /\ typed_blocks[k].eval_blocks[n].block = key.id
        /\ typed_blocks[k].eval_blocks[n].params = key.parameters}

\* the key resolves to an id whose block, arguments, register types and return
\* type are those of one call that visited the key
Resolves(key) ==
    LET s == get_block_id(key.id, key.parameters)
    IN  /\ s \in Nat
        /\ ~IsPanic(annotated_get_block(s))
        /\ annotated_get_block(s).block = key.id
        /\ annotated_get_block(s).args = key.parameters
        /\ \E v \in VisitsOf(key) :
              /\ annotated_get_block(s).registers
                   = typed_blocks[v[1]].eval_blocks[v[2]].types
              /\ get_return_type(s) = typed_blocks[v[1]].return_type

\* the key that annotate asked for: the one with the first function id
RootKeys == {BlockExecutionKey(e.id, e.parameters) : e \in {x \in Entries : x.exec.key.function = 1}}

\* C22: after extraction every visited key (B, T) resolves: get_block_id(B, T)
\* gives an id s, get_block(s) gives B, T and the register types computed when
\* (B, T) was evaluated, and get_return_type(s) is the return type of a call that
\* visited it, two calls with different return types included; the key annotate
\* started from resolves.
C22_LookupsResolve ==
    Extracted =>
        /\ \A key \in VisitedKeys : Resolves(key)
        /\ RootKeys # {} /\ \A key \in RootKeys : Resolves(key)
        /\ \A key \in VisitedKeys : \A v, w \in VisitsOf(key) :
               typed_blocks[v[1]].eval_blocks[v[2]].types
                 = typed_blocks[w[1]].eval_blocks[w[2]].types

\* an extracted table in which a key visited by two calls of different return
\* types resolves
C22_Witness ==
    /\ Extracted
    /\ \E key \in VisitedKeys :
          /\ Resolves(key)
          /\ \E v, w \in VisitsOf(key) :
                typed_blocks[v[1]].return_type # typed_blocks[w[1]].return_type

\* the specialized blocks of a table: block, argument types, register types
\* and return type of every id
Specialized(x) ==
    {[block |-> x.id_map[s].block,
      args |-> x.invocations[x.id_map[s].idx + 1].args,
      registers |-> x.invocations[x.id_map[s].idx + 1].registers,
      return_type |-> x.return_types[s]] : s \in DOMAIN x.id_map}

C24_AbortIsFinal ==
    /\ [](~Running =>
            /\ callstack # << >>
            /\ \A i \in DOMAIN callstack :
                  /\ callstack[i].frame \in DOMAIN workers
                  /\ workers[callstack[i].frame] = Working)
    /\ [][~Running =>
            /\ workers' = workers
            /\ callstack' = callstack
            /\ panicked' = panicked
            /\ op'.name = "try_into_results" =>
                  op'.out # "Ok" /\ op'.ret = NoResult]_vars

\* after an abort inside nested workers the driver has asked for the results
\* and got none
C24_Witness ==
    /\ ~Running
    /\ Len(callstack) > 1
    /\ op.name = "try_into_results" /\ op.out = "panic"

(***************************************************************************)
(* Properties of the program builder.                                      *)
(***************************************************************************)
\* a builder the user let go out of scope made the program panic with msg
DroppedWith(what, msg) ==
    builder.op.name = what => builder.panic = msg

\* C25 as stated: a FunctionBuilder dropped without end_function panics; one
\* passed to end_function is registered under its function id and dropped
\* without panic; a BlockBuilder dropped without a finalizing method and a
\* FinalizedBlockBuilder dropped without end_block both panic.
C25_Original ==
    /\ DroppedWith("drop FunctionBuilder", FunctionBuilderDropped)
    /\ DroppedWith("drop BlockBuilder", BlockBuilderDropped)
    /\ DroppedWith("drop FinalizedBlockBuilder", FinalizedBlockBuilderDropped)
    /\ builder.op.name = "end_function" =>
          /\ builder.panic = "none"
          /\ builder.op.id \in DOMAIN builder.functions

\* C25, amended: as above, but end_function registers the function (under its
\* id, with its entry block and the blocks given to end_block) only when the
\* builder has an entry block; without one end_function panics and registers
\* nothing.  The finalizing methods and end_block themselves never panic.
C25_BuilderProtocol ==
    /\ [](/\ DroppedWith("drop FunctionBuilder", FunctionBuilderDropped)
          /\ DroppedWith("drop BlockBuilder", BlockBuilderDropped)
          /\ DroppedWith("drop FinalizedBlockBuilder", FinalizedBlockBuilderDropped)
          /\ builder.op.name \in Finalizers \cup {"end_block"} => builder.panic = "none")
    /\ [][\A fb \in builder.fns :
            builder'.op = [name |-> "end_function", id |-> fb.id] =>
               IF fb.entrypoint # None
               THEN /\ builder'.panic = "none"
                    /\ fb.id \in DOMAIN builder'.functions
                    /\ builder'.functions[fb.id] =
                          [entry_block |-> fb.entrypoint[1], blocks |-> fb.blocks]
               ELSE /\ builder'.panic = NoEntryBlock
                    /\ builder'.functions = builder.functions]_vars

\* a function with its finished entry block has been registered
C25_Witness ==
    /\ builder.op.name = "end_function"
    /\ builder.panic = "none"
    /\ builder.op.id \in DOMAIN builder.functions
    /\ builder.functions[builder.op.id].blocks # << >>

(***************************************************************************)
(* Properties of the memo table and of one call's worklist.                *)
(***************************************************************************)
\* the memo entry of the same (block, argument types) in another table
SameKey(e, ex) ==
    {e2 \in all_fn_invocations(ex) : e2.id = e.id /\ e2.parameters = e.parameters}

\* C26: for every key the status only moves absent -> InProgress -> Finished:
\* a new entry is InProgress, an entry never disappears, a Finished entry stays
\* Finished, and the block key recorded with InProgress is the one recorded
\* with Finished.
C26_StatusOnlyAdvances ==
    [][/\ \A e \in Entries :
             /\ SameKey(e, executions') # {}
             /\ \A e2 \in SameKey(e, executions') :
                   /\ e2.exec.key = e.exec.key
                   /\ e.exec.s = "Finished" => e2.exec.s = "Finished"
       /\ \A e2 \in all_fn_invocations(executions') :
             SameKey(e2, executions) = {} => e2.exec.s = "InProgress"]_vars

\* a callee has finished while its caller is still in progress
C26_Witness ==
    /\ \E e \in Entries : e.exec.s = "Finished"
    /\ \E e \in Entries : e.exec.s = "InProgress"

\* the list holds the key (block, argument types)
Holds(L, id, parameters) ==
    \E i \in DOMAIN L : L[i].block = id /\ L[i].params = parameters

\* C27: within one call every (block, argument types) is evaluated at most once,
\* however often it was enqueued: the call's list of evaluated blocks never
\* holds two tuples with the same block and argument types, and the call never
\* enters a block with a key its list holds.
C27_EvaluatedOncePerCall ==
    /\ [](\A L \in VisitedLists : \A i, j \in DOMAIN L :
             L[i].block = L[j].block /\ L[i].params = L[j].params => i = j)
    /\ [][(/\ tasks # << >> /\ Len(tasks') = Len(tasks)
           /\ Top.st = "loop" /\ Top'.st = "block")
          => ~Holds(Top.eval_blocks, Top'.cur.id, Top'.cur.parameters)]_vars

\* the worklist's next key has been evaluated in this call already
C27_Witness ==
    /\ ARunning /\ tasks # << >> /\ Top.st = "loop" /\ Top.block_stack # << >>
    /\ Holds(Top.eval_blocks, Head(Top.block_stack).id, Head(Top.block_stack).parameters)

\* the successor keys the list's tuple for the key recorded (none if it returned)
SuccessorsIn(L, key) ==
    LET i == CHOOSE i \in DOMAIN L : L[i].block = key.id /\ L[i].params = key.parameters
    IN  IF L[i].control_flow.k = "Branch" THEN L[i].control_flow.next ELSE << >>

\* the keys reachable from the keys of the queue over the successors recorded in
\* L, each once, in the order a first-in first-out traversal discovers them
RECURSIVE Discovery(_, _, _)
Discovery(L, queue, found) ==
    IF queue = << >> THEN found
    ELSE LET key == Head(queue)
         IN  IF \E i \in DOMAIN found : found[i] = key
             THEN Discovery(L, Tail(queue), found)
             ELSE IF ~Holds(L, key.id, key.parameters)
             THEN Discovery(L, Tail(queue), Append(found, key))
             ELSE Discovery(L, Tail(queue) \o SuccessorsIn(L, key), Append(found, key))

\* the unify-fold, seeded with Never, of what the first n tuples returned
RECURSIVE ReturnFold(_, _)
ReturnFold(L, n) ==
    IF n = 0 THEN Never
    ELSE LET r == ReturnFold(L, n - 1)
         IN  IF IsPanic(r) THEN r
             ELSE IF L[n].control_flow.k = "Complete" THEN unify(r, L[n].control_flow.ret)
             ELSE r

\* C28: the typed function a finished explore_fn records lists exactly the keys
\* reachable from its root key over the successor keys of the evaluated blocks,
\* in first-in first-out discovery order with the root first, and its return
\* type is the unify-fold, seeded with Never, of the return types of the
\* visited blocks that end in a return.
C28_TypedFunctionIsTraversal ==
    \A e \in Entries :
        e.exec.s = "Finished" =>
            LET tf == typed_blocks[e.exec.key]
                L == tf.eval_blocks
            IN  /\ [i \in DOMAIN L |-> BlockExecutionKey(L[i].block, L[i].params)]
                      = Discovery(L, <<BlockExecutionKey(e.id, e.parameters)>>, << >>)
                /\ tf.return_type = ReturnFold(L, Len(L))

\* a finished function of four blocks at least, two of which return
C28_Witness ==
    \E e \in Entries :
        /\ e.exec.s = "Finished"
        /\ Len(typed_blocks[e.exec.key].eval_blocks) >= 4
        /\ \E i, j \in DOMAIN typed_blocks[e.exec.key].eval_blocks :
              /\ i # j
              /\ typed_blocks[e.exec.key].eval_blocks[i].control_flow.k = "Complete"
              /\ typed_blocks[e.exec.key].eval_blocks[j].control_flow.k = "Complete"

(***************************************************************************)
(* Properties of the engine lock.                                          *)
(***************************************************************************)
\* C29: no task holds the engine lock while it awaits: the lock is free or held
\* by the one task that is running, explore_block releases it in the step that
\* spawns a static callee and takes it again in the step that resumes, and no
\* try_lock ever fails.
C29_LockIsContentionless ==
    /\ [](/\ apanic # "Lock should be contentionless"
          /\ lock # 0 => tasks # << >> /\ lock = Me /\ Top.st = "block")
    /\ [][/\ (tasks # << >> /\ Len(tasks') = Len(tasks) + 1)
              => lock = Me /\ lock' = 0 /\ tasks'[2].st = "await"
          /\ (tasks # << >> /\ Len(tasks') = Len(tasks)
                /\ Top.st = "resume" /\ Top'.st = "block")
              => lock = 0 /\ lock' = Me]_vars

\* a caller has got its callee's answer and holds the lock again
C29_Witness ==
    /\ ARunning /\ tasks # << >> /\ Top.st = "block" /\ lock = Me
    /\ Top.pc - 1 \in DOMAIN CurBlock.instructions
    /\ IsStaticCall(CurBlock.instructions[Top.pc - 1])

(***************************************************************************)
(* Properties of the recorded call stack.                                  *)
(***************************************************************************)
\* C30: the inspectable call stack lists exactly the workers that are running,
\* innermost first, so that after an abort load_callstack_within_panic returns
\* the chain of workers in progress and no worker that has completed.
C30_CallstackListsRunning ==
    /\ load_callstack_within_panic = [i \in DOMAIN callstack |-> callstack[i].frame]
    /\ ~Running =>
          \A i \in DOMAIN load_callstack_within_panic :
              workers[load_callstack_within_panic[i]] = Working

(***************************************************************************)
(* Properties of the operand tests.                                        *)
(***************************************************************************)
\* C31: is_comparable returns the abstract-number comparable for Number, the
\* exact comparable carrying n for ExactInteger(n), and the not-comparable
\* answer for every other symbolic type, Any included.
C31_IsComparableTable ==
    applied.fn = "is_comparable" =>
        applied.out =
            CASE applied.self = Number -> [k |-> "Some", c |-> "Number"]
              [] applied.self.t = "ExactInteger" ->
                    [k |-> "Some", c |-> "Num", n |-> applied.self.n]
              [] OTHER -> [k |-> "None"]

\* C32: is_addable returns the string addable for String, the abstract-number
\* addable for Number, the exact addable carrying n for ExactInteger(n), and
\* the not-addable answer for every other symbolic type, ExactString included.
C32_IsAddableTable ==
    applied.fn = "is_addable" =>
        applied.out =
            CASE applied.self = String -> [k |-> "Some", c |-> "String"]
              [] applied.self = Number -> [k |-> "Some", c |-> "Number"]
              [] applied.self.t = "ExactInteger" ->
                    [k |-> "Some", c |-> "Num", n |-> applied.self.n]
              [] OTHER -> [k |-> "None"]

\* the types whose operand test answers (is_comparable, is_addable), and the
\* types for which the answer is that the operand does not qualify
Qualifies(kind) ==
    IF kind = "Add" THEN {"String", "Number", "ExactInteger"}
    ELSE {"Number", "ExactInteger"}
FailsTest(kind) ==
    IF kind = "Add" THEN {"Any", "Runtime", "Boolean", "Bool", "Pointer", "Word"}
    ELSE {"Runtime", "String", "ExactString", "Boolean", "Bool", "Pointer", "Word"}

\* C33: when exactly one operand of a CompareLessThan or of an Add fails its
\* operand test, the pass aborts and the failure names that operand's side.
C33_FailureNamesSide ==
    [][\A kind \in {"CompareLessThan", "Add"} :
          AtBinary(kind) =>
             /\ (Lhs.t \in FailsTest(kind) /\ Rhs.t \in Qualifies(kind))
                   => Aborts("not implemented: LHS is uncomparable")
             /\ (Lhs.t \in Qualifies(kind) /\ Rhs.t \in FailsTest(kind))
                   => Aborts("not implemented: RHS is uncomparable")]_vars

(***************************************************************************)
(* Properties of the entry into a block.                                   *)
(***************************************************************************)
\* the key has as many argument types as its block declares parameters
ArityFits(key) == Len(get_block(key.id).parameters) = Len(key.parameters)

\* C34: a key whose argument list differs in length from the block's parameter
\* list aborts the pass before any instruction of the block is evaluated: no
\* task is ever inside a block with such a key, and nothing was ever evaluated
\* under one.
C34_ArityMismatchAborts ==
    /\ \A i \in DOMAIN tasks :
          tasks[i].st \in {"block", "await", "resume"} => ArityFits(tasks[i].cur)
    /\ \A i \in DOMAIN evaluated : ArityFits(evaluated[i].key)

(***************************************************************************)
(* Properties of the execution memo as a table.                            *)
(***************************************************************************)
\* the pairs the table holds for the block
PairsOf(ex, id) == IF id \in DOMAIN ex THEN ex[id] ELSE << >>

\* the pair is one for the key: same block id, argument lists of the same
\* length and equal element by element, in order
IsFor(id, pair, key) ==
    /\ id = key.id
    /\ Len(pair.params) = Len(key.parameters)
    /\ \A n \in 1 .. Len(key.parameters) : pair.params[n] = key.parameters[n]

\* C35: after any sequence of inserts the memo holds at most one entry per key:
\* an insert of a key that is present replaces its status in place, an insert
\* of a new key adds one entry, and a lookup returns an entry exactly for a key
\* with the same block id and an equal argument list (length and order).
C35_OneEntryPerKey ==
    /\ [](\A id \in DOMAIN executions : \A i, j \in DOMAIN executions[id] :
             executions[id][i].params = executions[id][j].params => i = j)
    /\ [](applied.fn = "get" =>
             /\ applied.out.k = "Some" <=>
                   \E id \in DOMAIN executions : \E i \in DOMAIN executions[id] :
                       IsFor(id, executions[id][i], applied.key)
             /\ \A id \in DOMAIN executions : \A i \in DOMAIN executions[id] :
                   IsFor(id, executions[id][i], applied.key)
                      => applied.out = [k |-> "Some", e |-> executions[id][i].exec])
    /\ [][applied'.fn = "insert" /\ executions' # executions =>
             LET key == applied'.key
                 old == PairsOf(executions, key.id)
                 new == PairsOf(executions', key.id)
                 present == \E i \in DOMAIN old : IsFor(key.id, old[i], key)
             IN  /\ \A id \in DOMAIN executions \ {key.id} :
                       PairsOf(executions', id) = executions[id]
                 /\ Len(new) = IF present THEN Len(old) ELSE Len(old) + 1
                 /\ \A i \in DOMAIN old :
                       new[i] = IF IsFor(key.id, old[i], key)
                                THEN [params |-> key.parameters,
                                      exec |-> applied'.execution]
                                ELSE old[i]
                 /\ ~present => new[Len(new)] = [params |-> key.parameters,
                                                 exec |-> applied'.execution]]_vars

\* the table holds (Number, String) and (String, Number) for block 1, and an
\* entry that was InProgress has been replaced by Finished
C35_Witness ==
    /\ applied.fn = "insert" /\ applied.execution.s = "Finished"
    /\ 1 \in DOMAIN executions /\ Len(executions[1]) = 4
    /\ \E i \in DOMAIN executions[1] :
          /\ i < 4
          /\ executions[1][i].params = applied.key.parameters
          /\ executions[1][i].exec.s = "Finished"
    /\ \E i \in DOMAIN executions[1] : executions[1][i].exec.s = "InProgress"

(***************************************************************************)
(* Properties of the return of a static call.                              *)
(***************************************************************************)
\* the caller goes on after the call with these register types
ResumesWith(types) ==
    /\ apanic' = "none"
    /\ Len(tasks') = Len(tasks)
    /\ Top'.st = "block" /\ Top'.pc = Top.pc + 1
    /\ Top'.types = types

\* C36: after a static call whose callee returned Value(t) the result register,
\* when there is one, has type t and no other register changed, and without a
\* result register the register types are unchanged; after a callee that
\* returned Void they are unchanged when there is no result register, and the
\* pass aborts when there is one.
C36_CalleeReturnPropagates ==
    [][(ARunning /\ tasks # << >> /\ Top.st = "resume") =>
          /\ (Top.got.k = "Value" /\ CurInst.result # None) =>
                ResumesWith([r \in DOMAIN Top.types \cup {CurInst.result[1]} |->
                                IF r = CurInst.result[1] THEN Top.got.v
                                ELSE Top.types[r]])
          /\ (Top.got.k = "Value" /\ CurInst.result = None) => ResumesWith(Top.types)
          /\ (Top.got.k = "Void" /\ CurInst.result = None) => ResumesWith(Top.types)
          /\ (Top.got.k = "Void" /\ CurInst.result # None) =>
                Aborts("not yet implemented: figure out what to do")]_vars

\* a caller has the type its callee returned in the result register of the call
C36_Witness ==
    /\ ARunning /\ tasks # << >> /\ Top.st = "block"
    /\ Top.pc - 1 \in DOMAIN CurBlock.instructions
    /\ LET inst == CurBlock.instructions[Top.pc - 1]
       IN  /\ IsStaticCall(inst) /\ inst.result # None
           /\ inst.result[1] \in DOMAIN Top.types
           /\ \A i \in DOMAIN CurBlock.parameters : CurBlock.parameters[i] # inst.result[1]

(***************************************************************************)
(* Properties of the Working entries of the worker table.                  *)
(***************************************************************************)
WorkingIds == {id \in DOMAIN workers : workers[id] = Working}

\* the ids of the spawn calls on the chain recorded in callstack
NestedChain == {callstack[i].frame : i \in DOMAIN callstack}

\* the ids of the spawn calls that are running now: a panic has unwound them all
NestedIds == IF Running THEN NestedChain ELSE {}

\* C37 as stated: in every reachable state the ids whose status is Working are
\* exactly the ids of the spawn calls currently nested on the active chain.
C37_Original == WorkingIds = NestedIds

\* C37, amended: as long as no worker has aborted the Working ids are exactly
\* the ids of the nested spawn calls, each once, so a spawn that finds its id
\* Working has found a cycle on its own chain (the abort for a cycle names an
\* id of the chain); after an abort the Working ids are the ids of the chain
\* that was aborted, though no spawn is running.
C37_WorkingIsTheChain ==
    /\ WorkingIds = NestedChain
    /\ Cardinality(NestedChain) = Len(callstack)
    /\ panicked.why = "cycle" =>
          /\ callstack # << >>
          /\ panicked.id \in NestedChain
          /\ workers[panicked.id] = Working

\* a worker nested in another has requested an id of its chain
C37_Witness ==
    /\ panicked.why = "cycle"
    /\ Len(callstack) > 1
    /\ panicked.id \in NestedChain
    /\ panicked.id # Head(callstack).frame

(***************************************************************************)
(* Properties of the InProgress entries of the memo.                       *)
(***************************************************************************)
\* the keys the memo holds with the given status
KeysWith(status) ==
    {BlockExecutionKey(e.id, e.parameters) :
        e \in {x \in all_fn_invocations(executions) : x.exec.s = status}}

\* the explore_fn calls that have begun to run and have not returned
ActiveCalls == {i \in DOMAIN tasks : tasks[i].st # "start"}

\* C38: while the annotater runs, the keys whose memo status is InProgress
\* are exactly the root keys of the explore_fn calls that are active, one call
\* per key; once the root exploration has returned no key is InProgress, every
\* memo entry has its typed function, and extraction does not abort.
C38_InProgressIsActive ==
    /\ ARunning =>
          /\ KeysWith("InProgress") = {tasks[i].block : i \in ActiveCalls}
          /\ \A i, j \in ActiveCalls : tasks[i].block = tasks[j].block => i = j
    /\ root_result # Pending =>
          /\ ARunning
          /\ tasks = << >>
          /\ KeysWith("InProgress") = {}
          /\ \A e \in all_fn_invocations(executions) :
                e.exec.key \in DOMAIN typed_blocks

\* the root exploration of a program of several functions has returned and
\* the engine was extracted
C38_Witness ==
    /\ ARunning
    /\ root_result # Pending
    /\ extracted # NotExtracted
    /\ Cardinality(KeysWith("Finished")) > 1

(***************************************************************************)
(* Properties of the return types of the SymbWorkers.                      *)
(***************************************************************************)
ReturnsNormally(return_type) == return_type.k \in {"Void", "Value"}

\* C39: no worker of the symbolic execution completes with the return type
\* Never: every result in the worker table and every result system.spawn hands
\* to a caller has the return type Void or Value, no worker has computed Never
\* for itself, and no worker is never-infected.
C39_NoWorkerReturnsNever ==
    /\ \A id \in DOMAIN workers :
          IsCompleted(id) => ReturnsNormally(workers[id].r.return_type)
    /\ \A i \in DOMAIN symb.stack :
          LET w == symb.stack[i]
          IN  /\ ~w.never_infected
              /\ w.st = "resume" => ReturnsNormally(w.got)
              /\ w.st = "done" => ReturnsNormally(w.return_type)
    /\ symb.panic # "why is ret typ never"

\* a worker is handed the cached result of a worker that completed before
C39_Witness ==
    /\ Running /\ symb.stack # << >>
    /\ Worker.st = "resume" /\ Worker.got.k = "Value"
    /\ op.out = "cached"
    /\ \E id \in DOMAIN workers : IsCompleted(id) /\ workers[id].r.return_type = Void

(***************************************************************************)
(* The constant an Add of two exact integers records.                      *)
(***************************************************************************)
\* C40: an Add of ExactInteger(x) and ExactInteger(y) assigns ExactInteger(x + y)
\* when the sum is in the range of the integer type and aborts the pass when it
\* is not: it never records a wrapped constant.
C40_AddNeverWraps ==
    [][(/\ AtBinary("Add")
        /\ Lhs.t = "ExactInteger" /\ Rhs.t = "ExactInteger") =>
          IF InRange(Lhs.n + Rhs.n)
          THEN Assigns(ExactInteger(Lhs.n + Rhs.n))
          ELSE apanic' # "none"]_vars

====
